---------------------------- MODULE Spec2Model ----------------------------
(***************************************************************************)
(* Web analytics tracker: the event ingestion and aggregation engine.      *)
(*                                                                         *)
(* The store is three tables (user_sessions, page_views, user_analytics).  *)
(* trackEvent and endPageView are async handlers: each store statement     *)
(* they await is one atomic step, and the handler's locals live in its     *)
(* call frame between steps.  Spec runs the handlers one call at a time;   *)
(* SpecConc interleaves the statements of concurrent calls.                *)
(*                                                                         *)
(* Times are milliseconds since the epoch of the run.  The numeric(10,2)   *)
(* columns page_views_per_session and average_session_duration are held as *)
(* integers in hundredths.  Row ids (uuid) are the row's position in its   *)
(* table.  A nullable value is <<>> (null) or <<v>>.                       *)
(***************************************************************************)
EXTENDS Integers, Sequences, FiniteSets, TLC

VARIABLES
    userSessions,   \* table user_sessions: sequence of rows, id = index
    pageViews,      \* table page_views: sequence of rows, id = index
    userAnalytics,  \* table user_analytics: sequence of rows
    calls,          \* call frames of the handler invocations, in arrival order
    now,            \* the wall clock (ms), read by new Date() and defaultNow()
    deletedSessions \* ids of the user_sessions rows deleted from the table

vars == <<userSessions, pageViews, userAnalytics, calls, now, deletedSessions>>

-----------------------------------------------------------------------------
(* Bounds of the model *)

\* Number of handler invocations in a run of Spec.
MaxCalls == 3

\* Number of handler invocations in a run of SpecConc.
MaxConcCalls == 3

\* Number of handler invocations in a run of SpecRace.
MaxRaceCalls == 4

\* Number of handler invocations in a run of SpecFaults.
MaxFaultCalls == 3

\* Number of handler invocations that may be in flight at once in SpecConc.
MaxInFlight == 2

\* The clock advances in steps of TickMs, at most MaxTicks times.
TickMs == 500

MaxTicks == 2

\* Number of handler invocations before the read query in a run of SpecReads.
MaxReadCalls == 3

\* Number of distinct pages viewed in the stores of SpecPages.
MaxPages == 11

\* Number of requests one tracker instance sends in a run of SpecTracker.
MaxTrackerCalls == 4

Users == {"u1", "u2"}

-----------------------------------------------------------------------------
(* Values *)

Null == <<>>

Some(v) == <<v>>

IsNull(x) == x = <<>>

Val(x) == x[1]

\* A uuid that is the id of no row.
UnknownId == 0

MsPerSecond == 1000

Max(a, b) == IF a >= b THEN a ELSE b

\* The clock values a read may observe: time does not go backwards.
ClockReads == {t \in {now, now + TickMs} : t <= MaxTicks * TickMs}

\* The timestamps a caller may supply as exit_time.
ExitTimes == {k * TickMs : k \in 0..MaxTicks}

-----------------------------------------------------------------------------
(* Numeric conversions *)

\* Number.prototype.toFixed(2) of num / den, in hundredths: the nearest
\* hundredth, the larger one on a tie.
ToFixed2(num, den) == (200 * num + den) \div (2 * den)

\* numeric(10,2) storage of (avg100 / 100 + num / den): Postgres rounds the
\* decimal string to scale 2, half away from zero.
ToNumeric2(avg100, num, den) == (2 * (avg100 * den + 100 * num) + den) \div (2 * den)

-----------------------------------------------------------------------------
(* Store queries *)

\* select from user_analytics where user_id = u
SelectAnalytics(u) == {i \in DOMAIN userAnalytics : userAnalytics[i].user_id = u}

\* The first row of a result set as a nullable value.
FirstRow(table, ids) ==
    IF ids = {} THEN Null
    ELSE Some(table[CHOOSE i \in ids : \A j \in ids : i <= j])

SessionExists(id) == id \in DOMAIN userSessions \ deletedSessions

PageViewExists(id) == id \in DOMAIN pageViews

-----------------------------------------------------------------------------
(* Call frames *)

\* The positions a call frame may take in any of the specifications.
CallIds ==
    1..Max(Max(Max(MaxCalls, MaxFaultCalls), Max(MaxConcCalls, MaxRaceCalls)),
           Max(MaxReadCalls + 1, MaxTrackerCalls))

Finished(c) == c.pc \in {"done", "failed"}

InFlight == {i \in DOMAIN calls : ~Finished(calls[i])}

\* One request at a time: a call is accepted only when no call is in flight.
Sequential == InFlight = {} /\ Len(calls) < MaxCalls

\* One request at a time, in a run of SpecFaults.
SequentialFaults == InFlight = {} /\ Len(calls) < MaxFaultCalls

\* No read query has been handled yet.
Unqueried == \A i \in DOMAIN calls : calls[i].op \in {"trackEvent", "endPageView"}

\* Requests handled one at a time, until a read query is.
Reading == InFlight = {} /\ Len(calls) < MaxReadCalls /\ Unqueried

\* A read query after the requests handled so far.
Querying == InFlight = {} /\ Unqueried

\* Concurrent requests, up to MaxInFlight of them.
Concurrent == Cardinality(InFlight) < MaxInFlight /\ Len(calls) < MaxConcCalls

\* Concurrent requests of one browser: one user, ids the server handed out.
Racing == Cardinality(InFlight) < MaxInFlight /\ Len(calls) < MaxRaceCalls

SetCall(i, c) == calls' = [calls EXCEPT ![i] = c]

Throw(i, err) == SetCall(i, [calls[i] EXCEPT !.pc = "failed", !.error = err])

-----------------------------------------------------------------------------
(* parseUserAgent *)

\* A user agent string is held as the set of its parts.  For each part, the
\* lower-case patterns the parser looks for that occur in
\* part.toLowerCase().  No pattern spans two parts.
PatternsIn ==
    [Mozilla |-> [text |-> "Mozilla/5.0", has |-> {}],
     IPad |-> [text |-> "iPad", has |-> {"ipad"}],
     IPhone |-> [text |-> "iPhone", has |-> {"iphone"}],
     IPod |-> [text |-> "iPod", has |-> {"ipod"}],
     Android |-> [text |-> "Android 11", has |-> {"android"}],
     Mobile |-> [text |-> "Mobile/15E148", has |-> {"mobile"}],
     BlackBerry |-> [text |-> "BlackBerry", has |-> {"blackberry"}],
     WindowsPhone |-> [text |-> "Windows Phone 10.0",
                       has |-> {"windows phone", "windows"}],
     WindowsNT |-> [text |-> "Windows NT 10.0", has |-> {"windows"}],
     CpuOs |-> [text |-> "CPU OS 14_7_1 like Mac OS X",
                has |-> {"cpu os", "mac os x"}],
     Linux |-> [text |-> "Linux", has |-> {"linux"}],
     Chrome |-> [text |-> "Chrome/91.0.4472.124", has |-> {"chrome"}],
     Safari |-> [text |-> "Safari/537.36", has |-> {"safari"}],
     Firefox |-> [text |-> "Firefox/89.0", has |-> {"firefox"}],
     Edge |-> [text |-> "Edge/18.19041", has |-> {"edge"}],
     Opera |-> [text |-> "Opera/9.80", has |-> {"opera"}]]

\* The user agent strings: any set of parts, the empty string among them.
UserAgents == SUBSET DOMAIN PatternsIn

\* ua.includes(pattern), /pattern/i.test(ua)
Includes(ua, pattern) == \E part \in ua : pattern \in PatternsIn[part].has

\* /mobile|android|iphone|ipod|blackberry|windows phone/i
MobilePatterns ==
    {"mobile", "android", "iphone", "ipod", "blackberry", "windows phone"}

\* Mutant: the mobile patterns are tested before the tablet pattern.
DeviceType_MobileFirst(ua) ==
    IF \E pattern \in MobilePatterns : Includes(ua, pattern) THEN "mobile"
    ELSE IF Includes(ua, "ipad") THEN "tablet"
    ELSE "desktop"

\* Device type detection
DeviceType(ua) ==
    IF Includes(ua, "ipad") THEN "tablet"
    ELSE IF \E pattern \in MobilePatterns : Includes(ua, pattern) THEN "mobile"
    ELSE "desktop"

\* Operating system detection
OperatingSystem(ua) ==
    IF Includes(ua, "iphone") \/ Includes(ua, "ipad") \/ Includes(ua, "cpu os")
       \/ Includes(ua, "cpu iphone os") THEN "iOS"
    ELSE IF Includes(ua, "android") THEN "Android"
    ELSE IF Includes(ua, "windows") THEN "Windows"
    ELSE IF Includes(ua, "mac os x") THEN "macOS"
    ELSE IF Includes(ua, "linux") THEN "Linux"
    ELSE "Unknown"

\* Mutant: Safari is tested before Chrome.
Browser_SafariFirst(ua) ==
    IF Includes(ua, "safari") THEN "Safari"
    ELSE IF Includes(ua, "chrome") /\ ~Includes(ua, "edge") THEN "Chrome"
    ELSE IF Includes(ua, "firefox") THEN "Firefox"
    ELSE IF Includes(ua, "edge") THEN "Edge"
    ELSE IF Includes(ua, "opera") THEN "Opera"
    ELSE "Unknown"

\* Browser detection
Browser(ua) ==
    IF Includes(ua, "chrome") /\ ~Includes(ua, "edge") THEN "Chrome"
    ELSE IF Includes(ua, "firefox") THEN "Firefox"
    ELSE IF Includes(ua, "safari") /\ ~Includes(ua, "chrome") THEN "Safari"
    ELSE IF Includes(ua, "edge") THEN "Edge"
    ELSE IF Includes(ua, "opera") THEN "Opera"
    ELSE "Unknown"

\* A call of the parser on its own: the frame holds what it returns.
ParseUserAgent(admit, agents) ==
    /\ admit
    /\ \E ua \in agents :
         calls' = Append(calls, [op |-> "parseUserAgent", pc |-> "done",
                                 user_agent |-> ua,
                                 result |-> [deviceType |-> DeviceType(ua),
                                             operatingSystem |-> OperatingSystem(ua),
                                             browser |-> Browser(ua)],
                                 error |-> Null])
    /\ UNCHANGED <<userSessions, pageViews, userAnalytics, now, deletedSessions>>

\* user_agent of the tests' input: Chrome on Windows.
TestUserAgent == {"Mozilla", "WindowsNT", "Chrome", "Safari"}

-----------------------------------------------------------------------------
(* trackEvent *)

\* The session_id a caller may send: none (undefined or the empty string,
\* which !sessionId treats alike), the id of a stored session, or a uuid that
\* matches no row.
SessionIdInputs ==
    {Null} \cup {Some(id) : id \in DOMAIN userSessions} \cup {Some(UnknownId)}

\* The page and the client of a tracked event: page_url, geolocation.country
\* and what parseUserAgent derives from user_agent (Chrome on Windows).
Requests ==
    {[page_url |-> "https://example.com/home", country |-> Some("United States"),
      deviceType |-> DeviceType(TestUserAgent),
      browser |-> Browser(TestUserAgent)]}

\* input.geolocation?.country || null
OrNull(x) == IF x = Some("") THEN Null ELSE x

\* const existingUserAnalytics = await db.select()...limit(1); the first
\* statement the handler awaits.  The call frame holds the handler's locals.
TrackSelectAnalytics(admit, users, sessionIds) ==
    /\ admit
    /\ \E u \in users, sid \in sessionIds, q \in Requests :
         LET existing == FirstRow(userAnalytics, SelectAnalytics(u)) IN
         calls' = Append(calls,
                    [op |-> "trackEvent", pc |-> "session",
                     user_id |-> u, session_id |-> sid,
                     page_url |-> q.page_url, country |-> q.country,
                     deviceType |-> q.deviceType, browser |-> q.browser,
                     existingUserAnalytics |-> existing,
                     isNewUser |-> IsNull(existing),
                     sessionId |-> sid, pageViewId |-> Null,
                     error |-> Null])
    /\ UNCHANGED <<userSessions, pageViews, userAnalytics, now, deletedSessions>>

\* if (!sessionId) insert into user_sessions ... returning
NewSession(c, t) ==
    [user_id |-> c.user_id, is_new_user |-> c.isNewUser,
     device_type |-> c.deviceType, browser |-> c.browser,
     country |-> OrNull(c.country),
     created_at |-> t, updated_at |-> t]

\* Mutant: the update of a reused session also marks it as a returning visit.
TouchSession_Returning(id, t) ==
    [s \in DOMAIN userSessions |->
        IF s = id /\ SessionExists(s)
        THEN [userSessions[s] EXCEPT !.updated_at = t, !.is_new_user = FALSE]
        ELSE userSessions[s]]

\* else update user_sessions set updated_at = new Date() where id = sessionId
TouchSession(id, t) ==
    [s \in DOMAIN userSessions |->
        IF s = id /\ SessionExists(s)
        THEN [userSessions[s] EXCEPT !.updated_at = t]
        ELSE userSessions[s]]

\* Mutant: the supplied session_id is ignored and a session is always created.
TrackSession_AlwaysCreate(i) ==
    /\ i \in DOMAIN calls
    /\ calls[i].op = "trackEvent" /\ calls[i].pc = "session"
    /\ \E t \in ClockReads :
         /\ now' = t
         /\ userSessions' = Append(userSessions, NewSession(calls[i], t))
         /\ SetCall(i, [calls[i] EXCEPT !.pc = "pageView",
                          !.sessionId = Some(Len(userSessions) + 1)])
    /\ UNCHANGED <<pageViews, userAnalytics, deletedSessions>>

TrackSession(i) ==
    /\ i \in DOMAIN calls
    /\ calls[i].op = "trackEvent" /\ calls[i].pc = "session"
    /\ \E t \in ClockReads :
         /\ now' = t
         /\ IF IsNull(calls[i].sessionId)
            THEN /\ userSessions' = Append(userSessions, NewSession(calls[i], t))
                 /\ SetCall(i, [calls[i] EXCEPT !.pc = "pageView",
                                  !.sessionId = Some(Len(userSessions) + 1)])
            ELSE /\ userSessions' = TouchSession(Val(calls[i].sessionId), t)
                 /\ SetCall(i, [calls[i] EXCEPT !.pc = "pageView"])
    /\ UNCHANGED <<pageViews, userAnalytics, deletedSessions>>

\* insert into page_views (session_id, page_url, page_title) ... returning;
\* entry_time defaults to now(); session_id references user_sessions.id.
NewPageView(c, t) ==
    [session_id |-> Val(c.sessionId), page_url |-> c.page_url,
     entry_time |-> t, exit_time |-> Null, time_spent |-> Null]

\* Mutant: the insert does not check that the session exists.
TrackInsertPageView_Unchecked(i) ==
    /\ i \in DOMAIN calls
    /\ calls[i].op = "trackEvent" /\ calls[i].pc = "pageView"
    /\ \E t \in ClockReads :
         /\ now' = t
         /\ pageViews' = Append(pageViews, NewPageView(calls[i], t))
         /\ SetCall(i, [calls[i] EXCEPT !.pc = "analytics",
                          !.pageViewId = Some(Len(pageViews) + 1)])
    /\ UNCHANGED <<userSessions, userAnalytics, deletedSessions>>

TrackInsertPageView(i) ==
    /\ i \in DOMAIN calls
    /\ calls[i].op = "trackEvent" /\ calls[i].pc = "pageView"
    /\ IF SessionExists(Val(calls[i].sessionId))
       THEN \E t \in ClockReads :
              /\ now' = t
              /\ pageViews' = Append(pageViews, NewPageView(calls[i], t))
              /\ SetCall(i, [calls[i] EXCEPT !.pc = "analytics",
                               !.pageViewId = Some(Len(pageViews) + 1)])
       ELSE /\ Throw(i, Some("foreign key violation"))
            /\ UNCHANGED <<pageViews, now>>
    /\ UNCHANGED <<userSessions, userAnalytics, deletedSessions>>

\* Mutant: the counters are left to the column defaults.
NewAnalytics_Defaults(u, t) ==
    [user_id |-> u, total_sessions |-> 0, total_page_views |-> 0,
     total_time_spent |-> 0, first_visit |-> t, last_visit |-> t,
     page_views_per_session |-> 0, average_session_duration |-> 0]

\* The row inserted for a new user.
NewAnalytics(u, t) ==
    [user_id |-> u, total_sessions |-> 1, total_page_views |-> 1,
     total_time_spent |-> 0, first_visit |-> t, last_visit |-> t,
     page_views_per_session |-> 100, average_session_duration |-> 0]

\* Mutant: every event counts as a new session.
NewTotalSessions_AlwaysInc(c) == Val(c.existingUserAnalytics).total_sessions + 1

\* const newTotalSessions = sessionId === input.session_id ? ... : ... + 1
NewTotalSessions(c) ==
    IF c.sessionId = c.session_id
    THEN Val(c.existingUserAnalytics).total_sessions
    ELSE Val(c.existingUserAnalytics).total_sessions + 1

\* Mutant: a page view in a reused session is not counted.
NewTotalPageViews_PerSession(c) ==
    IF c.sessionId = c.session_id
    THEN Val(c.existingUserAnalytics).total_page_views
    ELSE Val(c.existingUserAnalytics).total_page_views + 1

NewTotalPageViews(c) == Val(c.existingUserAnalytics).total_page_views + 1

\* Mutant: page_views_per_session is not recomputed.
UpdatedAnalytics_StaleRatio(row, c, t) ==
    [row EXCEPT !.total_sessions = NewTotalSessions(c),
                !.total_page_views = NewTotalPageViews(c),
                !.last_visit = t]

\* Mutant: the update also writes the values of a new aggregate to the
\* time columns and to first_visit.
UpdatedAnalytics_ResetTimes(row, c, t) ==
    [row EXCEPT !.total_sessions = NewTotalSessions(c),
                !.total_page_views = NewTotalPageViews(c),
                !.last_visit = t,
                !.page_views_per_session =
                    ToFixed2(NewTotalPageViews(c), NewTotalSessions(c)),
                !.total_time_spent = 0,
                !.average_session_duration = 0,
                !.first_visit = t]

\* update user_analytics set ... where user_id = input.user_id
UpdatedAnalytics(row, c, t) ==
    [row EXCEPT !.total_sessions = NewTotalSessions(c),
                !.total_page_views = NewTotalPageViews(c),
                !.last_visit = t,
                !.page_views_per_session =
                    ToFixed2(NewTotalPageViews(c), NewTotalSessions(c))]

\* Mutant: user_analytics.user_id is not unique, the insert always succeeds.
TrackWriteAnalytics_NotUnique(i) ==
    /\ i \in DOMAIN calls
    /\ calls[i].op = "trackEvent" /\ calls[i].pc = "analytics"
    /\ \E t \in ClockReads :
         /\ now' = t
         /\ IF calls[i].isNewUser
            THEN /\ userAnalytics' =
                      Append(userAnalytics, NewAnalytics(calls[i].user_id, t))
                 /\ SetCall(i, [calls[i] EXCEPT !.pc = "done"])
            ELSE /\ userAnalytics' =
                      [r \in DOMAIN userAnalytics |->
                          IF userAnalytics[r].user_id = calls[i].user_id
                          THEN UpdatedAnalytics(userAnalytics[r], calls[i], t)
                          ELSE userAnalytics[r]]
                 /\ SetCall(i, [calls[i] EXCEPT !.pc = "done"])
    /\ UNCHANGED <<userSessions, pageViews, deletedSessions>>

TrackWriteAnalytics(i) ==
    /\ i \in DOMAIN calls
    /\ calls[i].op = "trackEvent" /\ calls[i].pc = "analytics"
    /\ \E t \in ClockReads :
         /\ now' = t
         /\ IF calls[i].isNewUser
            THEN IF SelectAnalytics(calls[i].user_id) # {}
                 THEN /\ Throw(i, Some("unique violation"))
                      /\ UNCHANGED userAnalytics
                 ELSE /\ userAnalytics' =
                            Append(userAnalytics, NewAnalytics(calls[i].user_id, t))
                      /\ SetCall(i, [calls[i] EXCEPT !.pc = "done"])
            ELSE /\ userAnalytics' =
                      [r \in DOMAIN userAnalytics |->
                          IF userAnalytics[r].user_id = calls[i].user_id
                          THEN UpdatedAnalytics(userAnalytics[r], calls[i], t)
                          ELSE userAnalytics[r]]
                 /\ SetCall(i, [calls[i] EXCEPT !.pc = "done"])
    /\ UNCHANGED <<userSessions, pageViews, deletedSessions>>

-----------------------------------------------------------------------------
(* endPageView *)

PageViewIdInputs == DOMAIN pageViews \cup {UnknownId}

\* Mutant: a page_view_id that matches no row ends the call without an error.
EndSelectPageView_NoThrow(admit, pageViewIds, exitTimes) ==
    /\ admit
    /\ \E id \in pageViewIds, x \in exitTimes :
         LET frame == [op |-> "endPageView", pc |-> "updatePageView",
                       page_view_id |-> id, exit_time |-> x,
                       existingPageView |-> Null, timeSpentSeconds |-> 0,
                       updatedPageView |-> Null, userId |-> Null,
                       existingAnalytics |-> Null, error |-> Null]
         IN  calls' = Append(calls,
                IF PageViewExists(id)
                THEN [frame EXCEPT !.existingPageView = Some(pageViews[id])]
                ELSE [frame EXCEPT !.pc = "done"])
    /\ UNCHANGED <<userSessions, pageViews, userAnalytics, now, deletedSessions>>

\* const existingPageViews = await db.select()...where id = page_view_id;
\* throws when the result is empty.
EndSelectPageView(admit, pageViewIds, exitTimes) ==
    /\ admit
    /\ \E id \in pageViewIds, x \in exitTimes :
         LET frame == [op |-> "endPageView", pc |-> "updatePageView",
                       page_view_id |-> id, exit_time |-> x,
                       existingPageView |-> Null, timeSpentSeconds |-> 0,
                       updatedPageView |-> Null, userId |-> Null,
                       existingAnalytics |-> Null, error |-> Null]
         IN  calls' = Append(calls,
                IF PageViewExists(id)
                THEN [frame EXCEPT !.existingPageView = Some(pageViews[id])]
                ELSE [frame EXCEPT !.pc = "failed",
                                   !.error = Some("Page view not found")])
    /\ UNCHANGED <<userSessions, pageViews, userAnalytics, now, deletedSessions>>

\* Mutant: the difference is not clamped at 0.
TimeSpentSeconds_NoClamp(entryTime, exitTime) ==
    (exitTime - entryTime) \div MsPerSecond

\* Math.max(0, Math.floor((exitTime.getTime() - entryTime.getTime()) / 1000))
TimeSpentSeconds(entryTime, exitTime) ==
    Max(0, (exitTime - entryTime) \div MsPerSecond)

\* Mutant: closing an already closed page view adds to its time_spent.
ClosedPageView_Accumulate(row, exitTime, secs) ==
    [row EXCEPT !.exit_time = Some(exitTime),
                !.time_spent = IF IsNull(row.time_spent) THEN Some(secs)
                               ELSE Some(Val(row.time_spent) + secs)]

\* Mutant: time_spent: timeSpentSeconds || null, which stores 0 as null.
ClosedPageView_ZeroAsNull(row, exitTime, secs) ==
    [row EXCEPT !.exit_time = Some(exitTime),
                !.time_spent = IF secs = 0 THEN Null ELSE Some(secs)]

\* Mutant: the update sets exit_time and leaves time_spent as it is.
ClosedPageView_ExitOnly(row, exitTime, secs) ==
    [row EXCEPT !.exit_time = Some(exitTime)]

\* .set({ exit_time: input.exit_time, time_spent: timeSpentSeconds })
ClosedPageView(row, exitTime, secs) ==
    [row EXCEPT !.exit_time = Some(exitTime), !.time_spent = Some(secs)]

\* update page_views set exit_time, time_spent where id = page_view_id returning
EndUpdatePageView(i) ==
    /\ i \in DOMAIN calls
    /\ calls[i].op = "endPageView" /\ calls[i].pc = "updatePageView"
    /\ LET c == calls[i]
           secs == TimeSpentSeconds(Val(c.existingPageView).entry_time, c.exit_time)
           row == ClosedPageView(pageViews[c.page_view_id], c.exit_time, secs)
       IN  /\ pageViews' = [pageViews EXCEPT ![c.page_view_id] = row]
           /\ SetCall(i, [c EXCEPT !.pc = "selectSession",
                            !.timeSpentSeconds = secs,
                            !.updatedPageView = Some(row)])
    /\ UNCHANGED <<userSessions, userAnalytics, now, deletedSessions>>

\* Mutant: when the session is missing the page view update is rolled back.
EndSelectSession_Rollback(i) ==
    /\ i \in DOMAIN calls
    /\ calls[i].op = "endPageView" /\ calls[i].pc = "selectSession"
    /\ LET sid == Val(calls[i].updatedPageView).session_id IN
       IF SessionExists(sid)
       THEN /\ SetCall(i, [calls[i] EXCEPT !.pc = "selectAnalytics",
                             !.userId = Some(userSessions[sid].user_id)])
            /\ UNCHANGED pageViews
       ELSE /\ Throw(i, Some("Session not found"))
            /\ pageViews' = [pageViews EXCEPT ![calls[i].page_view_id] =
                                Val(calls[i].existingPageView)]
    /\ UNCHANGED <<userSessions, userAnalytics, now, deletedSessions>>

\* select from user_sessions where id = updatedPageView.session_id; throws
\* when the result is empty.
EndSelectSession(i) ==
    /\ i \in DOMAIN calls
    /\ calls[i].op = "endPageView" /\ calls[i].pc = "selectSession"
    /\ LET sid == Val(calls[i].updatedPageView).session_id IN
       IF SessionExists(sid)
       THEN SetCall(i, [calls[i] EXCEPT !.pc = "selectAnalytics",
                          !.userId = Some(userSessions[sid].user_id)])
       ELSE Throw(i, Some("Session not found"))
    /\ UNCHANGED <<userSessions, pageViews, userAnalytics, now, deletedSessions>>

\* Mutant: with no aggregate row of the user, one is inserted.
EndSelectAnalytics_Upsert(i) ==
    /\ i \in DOMAIN calls
    /\ calls[i].op = "endPageView" /\ calls[i].pc = "selectAnalytics"
    /\ LET existing == FirstRow(userAnalytics, SelectAnalytics(Val(calls[i].userId))) IN
       /\ SetCall(i, [calls[i] EXCEPT
                        !.pc = IF IsNull(existing) THEN "done" ELSE "updateAnalytics",
                        !.existingAnalytics = existing])
       /\ userAnalytics' =
            IF IsNull(existing)
            THEN Append(userAnalytics, NewAnalytics(Val(calls[i].userId), now))
            ELSE userAnalytics
    /\ UNCHANGED <<userSessions, pageViews, now, deletedSessions>>

\* select from user_analytics where user_id = userId; with no row the handler
\* returns the updated page view.
EndSelectAnalytics(i) ==
    /\ i \in DOMAIN calls
    /\ calls[i].op = "endPageView" /\ calls[i].pc = "selectAnalytics"
    /\ LET existing == FirstRow(userAnalytics, SelectAnalytics(Val(calls[i].userId))) IN
       SetCall(i, [calls[i] EXCEPT
                     !.pc = IF IsNull(existing) THEN "done" ELSE "updateAnalytics",
                     !.existingAnalytics = existing])
    /\ UNCHANGED <<userSessions, pageViews, userAnalytics, now, deletedSessions>>

\* const newTotalTimeSpent = currentAnalytics.total_time_spent + timeSpentSeconds
NewTotalTimeSpent(c) == Val(c.existingAnalytics).total_time_spent + c.timeSpentSeconds

\* Mutant: the whole duration is added to the average.
NewAverageSessionDuration_WholeDuration(c) ==
    ToNumeric2(Val(c.existingAnalytics).average_session_duration,
               c.timeSpentSeconds, 1)

\* parseFloat(average_session_duration) + timeSpentSeconds / total_sessions,
\* stored through toString() into numeric(10,2)
NewAverageSessionDuration(c) ==
    ToNumeric2(Val(c.existingAnalytics).average_session_duration,
               c.timeSpentSeconds, Val(c.existingAnalytics).total_sessions)

\* Mutant: the update writes back the whole row as the handler read it.
ClosedAnalytics_WholeRow(row, c) ==
    [Val(c.existingAnalytics) EXCEPT
        !.total_time_spent = NewTotalTimeSpent(c),
        !.average_session_duration = NewAverageSessionDuration(c),
        !.last_visit = c.exit_time]

\* update user_analytics set ... where user_id = userId
ClosedAnalytics(row, c) ==
    [row EXCEPT !.total_time_spent = NewTotalTimeSpent(c),
                !.average_session_duration = NewAverageSessionDuration(c),
                !.last_visit = c.exit_time]

EndUpdateAnalytics(i) ==
    /\ i \in DOMAIN calls
    /\ calls[i].op = "endPageView" /\ calls[i].pc = "updateAnalytics"
    /\ userAnalytics' =
         [r \in DOMAIN userAnalytics |->
             IF userAnalytics[r].user_id = Val(calls[i].userId)
             THEN ClosedAnalytics(userAnalytics[r], calls[i])
             ELSE userAnalytics[r]]
    /\ SetCall(i, [calls[i] EXCEPT !.pc = "done"])
    /\ UNCHANGED <<userSessions, pageViews, now, deletedSessions>>

-----------------------------------------------------------------------------
(* JavaScript numbers *)

(* The percentages and the bounce rate are JavaScript numbers: IEEE 754      *)
(* binary64.  A positive number is its 53-bit significand sig and the        *)
(* exponent exp of its last bit: the value is sig * 2^exp.  Naturals wider   *)
(* than a machine integer are sequences of 15-bit limbs, least significant   *)
(* first.  Every operation rounds its exact result to nearest, ties to even. *)

Precision == 53

LimbBits == 15

Base == 2^LimbBits

\* Limbs of the quotient kept below the binary point by a division.
FractionLimbs == 5

Zeros(n) == [i \in 1..n |-> 0]

DZero == [sig |-> <<>>, exp |-> 0]

RECURSIVE LimbsOfNat(_)
LimbsOfNat(n) ==
    IF n = 0 THEN <<>> ELSE <<n % Base>> \o LimbsOfNat(n \div Base)

RECURSIVE DropHighZeros(_)
DropHighZeros(N) ==
    IF N = <<>> \/ N[Len(N)] # 0 THEN N
    ELSE DropHighZeros(SubSeq(N, 1, Len(N) - 1))

LimbAt(N, i) == IF i \in DOMAIN N THEN N[i] ELSE 0

\* Bit i of N, bit 0 the least significant.
BitAt(N, i) == (LimbAt(N, i \div LimbBits + 1) \div 2^(i % LimbBits)) % 2

BitLen(N) ==
    LET M == DropHighZeros(N) IN
    IF M = <<>> THEN 0
    ELSE LimbBits * (Len(M) - 1)
           + (CHOOSE k \in 1..LimbBits : 2^(k - 1) <= M[Len(M)] /\ M[Len(M)] < 2^k)

\* N * k + carry, for k <= Base.
RECURSIVE MulSmall(_, _, _)
MulSmall(N, k, carry) ==
    IF N = <<>> THEN (IF carry = 0 THEN <<>> ELSE <<carry>>)
    ELSE LET v == N[1] * k + carry
         IN  <<v % Base>> \o MulSmall(Tail(N), k, v \div Base)

RECURSIVE AddCarry(_, _, _)
AddCarry(N, M, carry) ==
    IF N = <<>> /\ M = <<>> THEN (IF carry = 0 THEN <<>> ELSE <<carry>>)
    ELSE LET v == LimbAt(N, 1) + LimbAt(M, 1) + carry
         IN  <<v % Base>> \o AddCarry(IF N = <<>> THEN N ELSE Tail(N),
                                      IF M = <<>> THEN M ELSE Tail(M),
                                      v \div Base)

\* N * 2^s
ShiftLeft(N, s) == Zeros(s \div LimbBits) \o MulSmall(N, 2^(s % LimbBits), 0)

\* N \div 2^s
ShiftRight(N, s) ==
    LET w == s \div LimbBits
        r == s % LimbBits
    IN  [j \in 1..Max(0, Len(N) - w) |->
            (LimbAt(N, j + w) \div 2^r)
              + (LimbAt(N, j + w + 1) % 2^r) * 2^(LimbBits - r)]

\* The binary64 nearest to N * 2^exp, plus a nonzero part below the last bit
\* when sticky: round to nearest, ties to even.
RoundNearestEven(N, exp, sticky) ==
    LET len == BitLen(N) IN
    IF len = 0 THEN DZero
    ELSE IF len <= Precision
    THEN [sig |-> DropHighZeros(ShiftLeft(N, Precision - len)),
          exp |-> exp - (Precision - len)]
    ELSE LET s == len - Precision
             q == ShiftRight(N, s)
             rest == sticky \/ \E i \in 0..(s - 2) : BitAt(N, i) = 1
             up == BitAt(N, s - 1) = 1 /\ (rest \/ BitAt(q, 0) = 1)
             rounded == IF up THEN AddCarry(q, <<1>>, 0) ELSE q
         IN  IF BitLen(rounded) > Precision
             THEN [sig |-> DropHighZeros(ShiftRight(rounded, 1)), exp |-> exp + s + 1]
             ELSE [sig |-> DropHighZeros(rounded), exp |-> exp + s]

\* The first n limbs below the binary point of r / b, for r < b <= Base.
RECURSIVE DivLimbs(_, _, _)
DivLimbs(r, b, n) ==
    IF n = 0 THEN <<>>
    ELSE Append(DivLimbs((r * Base) % b, b, n - 1), (r * Base) \div b)

RECURSIVE DivRemainder(_, _, _)
DivRemainder(r, b, n) ==
    IF n = 0 THEN r ELSE DivRemainder((r * Base) % b, b, n - 1)

\* a / b for two non-negative integers, 0 < b <= Base and a \div b < Base.
DDiv(a, b) ==
    RoundNearestEven(Append(DivLimbs(a % b, b, FractionLimbs), a \div b),
                     0 - FractionLimbs * LimbBits,
                     DivRemainder(a % b, b, FractionLimbs) # 0)

\* x * k for a non-negative integer k <= Base.
DMulNat(x, k) ==
    IF x = DZero THEN DZero
    ELSE RoundNearestEven(MulSmall(x.sig, k, 0), x.exp, FALSE)

\* x + y
DAdd(x, y) ==
    IF x = DZero THEN y
    ELSE IF y = DZero THEN x
    ELSE LET e == IF x.exp <= y.exp THEN x.exp ELSE y.exp
         IN  RoundNearestEven(AddCarry(ShiftLeft(x.sig, x.exp - e),
                                       ShiftLeft(y.sig, y.exp - e), 0), e, FALSE)

DFromNat(n) == RoundNearestEven(LimbsOfNat(n), 0, FALSE)

\* x <= y
DLeq(x, y) ==
    IF x = DZero THEN TRUE
    ELSE IF y = DZero THEN FALSE
    ELSE \/ x.exp < y.exp
         \/ /\ x.exp = y.exp
            /\ \/ x.sig = y.sig
               \/ \E i \in DOMAIN x.sig :
                     /\ x.sig[i] < y.sig[i]
                     /\ \A j \in DOMAIN x.sig : j > i => x.sig[j] = y.sig[j]

-----------------------------------------------------------------------------
(* getAnalyticsSummary *)

\* Milliseconds from 2024-01-15T00:00:00Z to h:mi:s on day d after it.
At(d, h, mi, s) == (((d * 24 + h) * 60 + mi) * 60 + s) * MsPerSecond

\* The filters a caller may send.  A field that is absent is null; so is an
\* empty country, device_type or page_url, which the handler's truth tests
\* treat as absent.  The date range holds the sessions of the second and
\* third day and ends between two page views of the latter.
FilterInputs ==
    [start_date : {Null, Some(At(1, 0, 0, 0))},
     end_date : {Null, Some(At(2, 9, 16, 0))},
     country : {Null, Some("USA")},
     device_type : {Null, Some("desktop")},
     page_url : {Null, Some("/home")},
     is_new_user : {Null, Some(TRUE), Some(FALSE)}]

\* and(...conditions) on a row of user_sessions
Conditions(s, f) ==
    /\ IsNull(f.start_date) \/ s.created_at >= Val(f.start_date)
    /\ IsNull(f.end_date) \/ s.created_at <= Val(f.end_date)
    /\ IsNull(f.country) \/ s.country = f.country
    /\ IsNull(f.device_type) \/ s.device_type = Val(f.device_type)
    /\ IsNull(f.is_new_user) \/ s.is_new_user = Val(f.is_new_user)

\* The ids of the rows of user_sessions that satisfy the conditions.
MatchingSessions(f) ==
    {s \in DOMAIN userSessions \ deletedSessions : Conditions(userSessions[s], f)}

\* Mutant: new and returning users are counted as distinct users.
BasicMetrics_DistinctUsers(f) ==
    LET M == MatchingSessions(f) IN
    [total_users |-> Cardinality({userSessions[s].user_id : s \in M}),
     total_sessions |-> Cardinality(M),
     new_users |-> Cardinality({userSessions[s].user_id :
                                  s \in {t \in M : userSessions[t].is_new_user = TRUE}}),
     returning_users |-> Cardinality({userSessions[s].user_id :
                                        s \in {t \in M : userSessions[t].is_new_user = FALSE}})]

\* 1. basic user and session metrics
BasicMetrics(f) ==
    LET M == MatchingSessions(f) IN
    [total_users |-> Cardinality({userSessions[s].user_id : s \in M}),
     total_sessions |-> Cardinality(M),
     new_users |-> Cardinality({s \in M : userSessions[s].is_new_user = TRUE}),
     returning_users |-> Cardinality({s \in M : userSessions[s].is_new_user = FALSE})]

\* The subquery page_count: the number of page views of a session.
PageCount(sid) == Cardinality({p \in DOMAIN pageViews : pageViews[p].session_id = sid})

\* Mutant: the date range is applied to the page view's entry_time as well.
JoinedPageViews_ByEntryTime(f) ==
    {p \in DOMAIN pageViews :
        /\ pageViews[p].session_id \in MatchingSessions(f)
        /\ IsNull(f.start_date) \/ pageViews[p].entry_time >= Val(f.start_date)
        /\ IsNull(f.end_date) \/ pageViews[p].entry_time <= Val(f.end_date)}

\* page_views inner join user_sessions where the conditions hold
JoinedPageViews(f) ==
    {p \in DOMAIN pageViews : pageViews[p].session_id \in MatchingSessions(f)}

RECURSIVE SumTimeOf(_)
SumTimeOf(ids) ==
    IF ids = {} THEN 0
    ELSE LET p == CHOOSE q \in ids : TRUE
         IN  Val(pageViews[p].time_spent) + SumTimeOf(ids \ {p})

\* Mutant: the page_url filter also restricts the joined page views.
PageViewMetrics_PageFiltered(f) ==
    LET J == {p \in JoinedPageViews(f) :
                 IsNull(f.page_url) \/ pageViews[p].page_url = Val(f.page_url)}
        timed == {p \in J : ~IsNull(pageViews[p].time_spent)}
    IN  [total_page_views |-> Cardinality(J),
         avg_session_duration |->
             IF timed = {} THEN Null
             ELSE Some(DDiv(SumTimeOf(timed), Cardinality(timed))),
         bounce_sessions |->
             Cardinality({p \in J : PageCount(pageViews[p].session_id) = 1})]

\* 2. page view metrics.  avg() skips nulls and is null over no value.
PageViewMetrics(f) ==
    LET J == JoinedPageViews(f)
        timed == {p \in J : ~IsNull(pageViews[p].time_spent)}
    IN  [total_page_views |-> Cardinality(J),
         avg_session_duration |->
             IF timed = {} THEN Null
             ELSE Some(DDiv(SumTimeOf(timed), Cardinality(timed))),
         bounce_sessions |->
             Cardinality({p \in J : PageCount(pageViews[p].session_id) = 1})]

\* The sequences that list every row of a result set once, in non-increasing
\* order of Key; rows with equal keys come in any order.
RECURSIVE SortedKeyed(_)
SortedKeyed(keyed) ==
    IF keyed = {} THEN {<<>>}
    ELSE LET first == {k \in keyed : \A other \in keyed : k.key >= other.key}
         IN  UNION {{<<k.row>> \o seq : seq \in SortedKeyed(keyed \ {k})} :
                    k \in first}

\* .limit(n)
Limit(seq, n) == SubSeq(seq, 1, IF Len(seq) < n THEN Len(seq) ELSE n)

PageLimit == 10

CountryLimit == 10

BrowserLimit == 10

\* desc(count(page_views.id)): the rows with their sort key
ByViews(rows) == {[key |-> row.views, row |-> row] : row \in rows}

\* desc(countDistinct(user_sessions.user_id)): the rows with their sort key
ByUsers(rows) == {[key |-> row.users, row |-> row] : row \in rows}

\* Mutant: the top pages without the limit.
TopPages_Unlimited(f) ==
    LET J == {p \in JoinedPageViews(f) :
                 IsNull(f.page_url) \/ pageViews[p].page_url = Val(f.page_url)}
        rows == {[page_url |-> u,
                  views |-> Cardinality({p \in J : pageViews[p].page_url = u}),
                  unique_views |->
                      Cardinality({pageViews[p].session_id :
                                     p \in {q \in J : pageViews[q].page_url = u}})] :
                 u \in {pageViews[p].page_url : p \in J}}
    IN  SortedKeyed(ByViews(rows))

\* 3. top pages: pageConditions adds the page_url filter.
TopPages(f) ==
    LET J == {p \in JoinedPageViews(f) :
                 IsNull(f.page_url) \/ pageViews[p].page_url = Val(f.page_url)}
        rows == {[page_url |-> u,
                  views |-> Cardinality({p \in J : pageViews[p].page_url = u}),
                  unique_views |->
                      Cardinality({pageViews[p].session_id :
                                     p \in {q \in J : pageViews[q].page_url = u}})] :
                 u \in {pageViews[p].page_url : p \in J}}
    IN  {Limit(seq, PageLimit) : seq \in SortedKeyed(ByViews(rows))}

\* Mutant: the sessions without a country are grouped as "unknown".
TopCountries_Unknown(f) ==
    LET M == MatchingSessions(f)
        rows == {[country |-> IF IsNull(c) THEN "unknown" ELSE Val(c),
                  users |-> Cardinality({userSessions[s].user_id :
                                           s \in {t \in M : userSessions[t].country = c}}),
                  sessions |-> Cardinality({s \in M : userSessions[s].country = c})] :
                 c \in {userSessions[s].country : s \in M}}
    IN  {Limit(seq, CountryLimit) : seq \in SortedKeyed(ByUsers(rows))}

\* 4. top countries: countryConditions adds country IS NOT NULL.
TopCountries(f) ==
    LET M == {s \in MatchingSessions(f) : ~IsNull(userSessions[s].country)}
        rows == {[country |-> Val(c),
                  users |-> Cardinality({userSessions[s].user_id :
                                           s \in {t \in M : userSessions[t].country = c}}),
                  sessions |-> Cardinality({s \in M : userSessions[s].country = c})] :
                 c \in {userSessions[s].country : s \in M}}
    IN  {Limit(seq, CountryLimit) : seq \in SortedKeyed(ByUsers(rows))}

\* String.prototype.toLowerCase on the device types.
ToLowerCase(s) ==
    CASE s = "Desktop" -> "desktop"
      [] s = "Mobile" -> "mobile"
      [] s = "Tablet" -> "tablet"
      [] OTHER -> s

\* 5. device breakdown: the session count of the group of each device type.
DeviceBreakdown(f) ==
    LET M == MatchingSessions(f)
        deviceData == {[device_type |-> d,
                        count |-> Cardinality({s \in M : userSessions[s].device_type = d})] :
                       d \in {userSessions[s].device_type : s \in M}}
        CountOf(d) ==
            LET g == {row \in deviceData : ToLowerCase(row.device_type) = d}
            IN  IF g = {} THEN 0 ELSE (CHOOSE row \in g : TRUE).count
    IN  [desktop |-> CountOf("desktop"), mobile |-> CountOf("mobile"),
         tablet |-> CountOf("tablet")]

\* Mutant: the sessions of each browser are counted, not their users.
BrowserData_PerSession(f) ==
    LET M == MatchingSessions(f)
        rows == {[browser |-> b,
                  users |-> Cardinality({t \in M : userSessions[t].browser = b})] :
                 b \in {userSessions[s].browser : s \in M}}
    IN  {Limit(seq, BrowserLimit) : seq \in SortedKeyed(ByUsers(rows))}

\* 6. browser breakdown: distinct users per browser.
BrowserData(f) ==
    LET M == MatchingSessions(f)
        rows == {[browser |-> b,
                  users |-> Cardinality({userSessions[s].user_id :
                                           s \in {t \in M : userSessions[t].browser = b}})] :
                 b \in {userSessions[s].browser : s \in M}}
    IN  {Limit(seq, BrowserLimit) : seq \in SortedKeyed(ByUsers(rows))}

\* browserData.reduce((sum, browser) => sum + browser.users, 0)
RECURSIVE TotalBrowserUsers(_)
TotalBrowserUsers(browserData) ==
    IF browserData = <<>> THEN 0
    ELSE browserData[1].users + TotalBrowserUsers(Tail(browserData))

\* Mutant: each percentage is taken of the largest group, not of the total.
BrowserBreakdown_OfLargest(browserData) ==
    LET total == IF browserData = <<>> THEN 0 ELSE browserData[1].users IN
    [i \in DOMAIN browserData |->
        [browser |-> browserData[i].browser,
         users |-> browserData[i].users,
         percentage |-> IF total > 0
                        THEN DMulNat(DDiv(browserData[i].users, total), 100)
                        ELSE DZero]]

\* percentage: totalBrowserUsers > 0 ? (users / totalBrowserUsers) * 100 : 0
BrowserBreakdown(browserData) ==
    LET total == TotalBrowserUsers(browserData) IN
    [i \in DOMAIN browserData |->
        [browser |-> browserData[i].browser,
         users |-> browserData[i].users,
         percentage |-> IF total > 0
                        THEN DMulNat(DDiv(browserData[i].users, total), 100)
                        ELSE DZero]]

\* Mutant: the bounce sessions are divided by the page views.
BounceRate_OfPageViews(basicMetrics, pageViewMetrics) ==
    IF pageViewMetrics.total_page_views > 0
    THEN DMulNat(DDiv(pageViewMetrics.bounce_sessions,
                      pageViewMetrics.total_page_views), 100)
    ELSE DZero

\* total_sessions > 0 ? (bounce_sessions / total_sessions) * 100 : 0
BounceRate(basicMetrics, pageViewMetrics) ==
    IF basicMetrics.total_sessions > 0
    THEN DMulNat(DDiv(pageViewMetrics.bounce_sessions,
                      basicMetrics.total_sessions), 100)
    ELSE DZero

\* The summaries the handler may return for filters f: one for each order
\* in which the store may list rows with equal sort keys.
Summaries(f) ==
    LET basicMetrics == BasicMetrics(f)
        pageViewMetrics == PageViewMetrics(f)
        bounceRate == BounceRate(basicMetrics, pageViewMetrics)
        averageSessionDuration ==
            IF IsNull(pageViewMetrics.avg_session_duration) THEN DZero
            ELSE Val(pageViewMetrics.avg_session_duration)
        deviceBreakdown == DeviceBreakdown(f)
        browserBreakdowns ==
            {BrowserBreakdown(browserData) : browserData \in BrowserData(f)}
    IN  {[total_users |-> basicMetrics.total_users,
          total_sessions |-> basicMetrics.total_sessions,
          total_page_views |-> pageViewMetrics.total_page_views,
          new_users |-> basicMetrics.new_users,
          returning_users |-> basicMetrics.returning_users,
          average_session_duration |-> averageSessionDuration,
          bounce_rate |-> bounceRate,
          top_pages |-> topPages,
          top_countries |-> topCountries,
          device_breakdown |-> deviceBreakdown,
          browser_breakdown |-> browserBreakdown] :
         topPages \in TopPages(f), topCountries \in TopCountries(f),
         browserBreakdown \in browserBreakdowns}

\* Mutant: the query stamps the sessions it has read.
GetAnalyticsSummary_Touch(admit, filters) ==
    /\ admit
    /\ \E f \in filters : \E r \in Summaries(f) :
         calls' = Append(calls, [op |-> "getAnalyticsSummary", pc |-> "done",
                                 filters |-> f, result |-> r, error |-> Null])
    /\ userSessions' = [s \in DOMAIN userSessions |->
                          [userSessions[s] EXCEPT !.updated_at = now]]
    /\ UNCHANGED <<pageViews, userAnalytics, now, deletedSessions>>

\* The handler only reads; the statements it awaits see the same store when
\* no writer runs beside it.
GetAnalyticsSummary(admit, filters) ==
    /\ admit
    /\ \E f \in filters : \E r \in Summaries(f) :
         calls' = Append(calls, [op |-> "getAnalyticsSummary", pc |-> "done",
                                 filters |-> f, result |-> r, error |-> Null])
    /\ UNCHANGED <<userSessions, pageViews, userAnalytics, now, deletedSessions>>

-----------------------------------------------------------------------------
(* getUserSessions, getPageViews, getUserAnalytics *)

\* if (filters.x) on a string field: present and not the empty string.  A
\* date that is present is an object, which the test always lets through.
Truthy(x) == ~IsNull(x) /\ x # Some("")

\* The conditions getUserSessions pushes, on a row of user_sessions.
SessionConditions(s, f) ==
    /\ ~IsNull(f.start_date) => s.created_at >= Val(f.start_date)
    /\ ~IsNull(f.end_date) => s.created_at <= Val(f.end_date)
    /\ Truthy(f.country) => s.country = f.country
    /\ Truthy(f.device_type) => s.device_type = Val(f.device_type)
    /\ ~IsNull(f.is_new_user) => s.is_new_user = Val(f.is_new_user)

\* orderBy(created_at): the rows with their sort key
ByCreatedAt(ids) == {[key |-> 0 - userSessions[s].created_at, row |-> s] : s \in ids}

\* Mutant: a filter is_new_user = false is taken for no filter.
GetUserSessions_TruthyNewUser(admit, filters) ==
    /\ admit
    /\ \E f \in filters :
         LET g == IF f.is_new_user = Some(FALSE)
                  THEN [f EXCEPT !.is_new_user = Null] ELSE f
             ids == {s \in DOMAIN userSessions \ deletedSessions :
                       SessionConditions(userSessions[s], g)}
         IN  \E r \in SortedKeyed(ByCreatedAt(ids)) :
               calls' = Append(calls, [op |-> "getUserSessions", pc |-> "done",
                                       filters |-> f, result |-> r, error |-> Null])
    /\ UNCHANGED <<userSessions, pageViews, userAnalytics, now, deletedSessions>>

\* The ids of the rows the query returns, in the order of created_at (rows
\* created at the same time in any order); the columns are returned as stored.
GetUserSessions(admit, filters) ==
    /\ admit
    /\ \E f \in filters :
         LET ids == {s \in DOMAIN userSessions \ deletedSessions :
                       SessionConditions(userSessions[s], f)}
         IN  \E r \in SortedKeyed(ByCreatedAt(ids)) :
               calls' = Append(calls, [op |-> "getUserSessions", pc |-> "done",
                                       filters |-> f, result |-> r, error |-> Null])
    /\ UNCHANGED <<userSessions, pageViews, userAnalytics, now, deletedSessions>>

\* const needsJoin
NeedsJoin(f) == Truthy(f.country) \/ Truthy(f.device_type) \/ ~IsNull(f.is_new_user)

\* The conditions getPageViews pushes, on a row of page_views and, when the
\* query joins, the row of its session.
PageViewConditions(p, f) ==
    /\ ~IsNull(f.start_date) => pageViews[p].entry_time >= Val(f.start_date)
    /\ ~IsNull(f.end_date) => pageViews[p].entry_time <= Val(f.end_date)
    /\ Truthy(f.page_url) => Some(pageViews[p].page_url) = f.page_url
    /\ NeedsJoin(f) =>
          /\ SessionExists(pageViews[p].session_id)
          /\ LET s == userSessions[pageViews[p].session_id] IN
              /\ Truthy(f.country) => s.country = f.country
              /\ Truthy(f.device_type) => s.device_type = Val(f.device_type)
              /\ ~IsNull(f.is_new_user) => s.is_new_user = Val(f.is_new_user)

\* The ids of the rows the query returns; it asks for no order.
GetPageViews(admit, filters) ==
    /\ admit
    /\ \E f \in filters :
         calls' = Append(calls, [op |-> "getPageViews", pc |-> "done", filters |-> f,
                                 result |-> {p \in DOMAIN pageViews :
                                               PageViewConditions(p, f)},
                                 error |-> Null])
    /\ UNCHANGED <<userSessions, pageViews, userAnalytics, now, deletedSessions>>

\* The conditions getUserAnalytics pushes, on a row of user_analytics.
AnalyticsConditions(a, f) ==
    /\ ~IsNull(f.start_date) => a.last_visit >= Val(f.start_date)
    /\ ~IsNull(f.end_date) => a.first_visit <= Val(f.end_date)

\* Mutant: the date range is applied to first_visit alone.
GetUserAnalytics_FirstVisitInRange(admit, filters) ==
    /\ admit
    /\ \E f \in filters :
         calls' = Append(calls, [op |-> "getUserAnalytics", pc |-> "done", filters |-> f,
                                 result |-> {a \in DOMAIN userAnalytics :
                                               /\ ~IsNull(f.start_date) =>
                                                     userAnalytics[a].first_visit >= Val(f.start_date)
                                               /\ ~IsNull(f.end_date) =>
                                                     userAnalytics[a].first_visit <= Val(f.end_date)},
                                 error |-> Null])
    /\ UNCHANGED <<userSessions, pageViews, userAnalytics, now, deletedSessions>>

\* The ids of the rows the query returns; it asks for no order.
GetUserAnalytics(admit, filters) ==
    /\ admit
    /\ \E f \in filters :
         calls' = Append(calls, [op |-> "getUserAnalytics", pc |-> "done", filters |-> f,
                                 result |-> {a \in DOMAIN userAnalytics :
                                               AnalyticsConditions(userAnalytics[a], f)},
                                 error |-> Null])
    /\ UNCHANGED <<userSessions, pageViews, userAnalytics, now, deletedSessions>>

-----------------------------------------------------------------------------
(* The stores the summary is computed over *)

\* The time the rows without an explicit timestamp are inserted at.
FixtureNow == At(20, 0, 0, 0)

\* The session trackEvent stores when user1 comes back with the browser of
\* their first session: the same user agent and country, is_new_user false.
ReturnVisit ==
    [user_id |-> "user1", is_new_user |-> FALSE, device_type |-> "desktop",
     browser |-> "Chrome", country |-> Some("USA"),
     created_at |-> At(4, 9, 0, 0), updated_at |-> At(4, 9, 0, 0)]

\* The session rows the tests of getAnalyticsSummary insert, and a return
\* visit.
FixtureSessions ==
    <<[user_id |-> "user1", is_new_user |-> TRUE, device_type |-> "desktop",
       browser |-> "Chrome", country |-> Some("USA"),
       created_at |-> At(0, 10, 0, 0), updated_at |-> FixtureNow],
      [user_id |-> "user1", is_new_user |-> FALSE, device_type |-> "mobile",
       browser |-> "Safari", country |-> Some("USA"),
       created_at |-> At(1, 14, 30, 0), updated_at |-> FixtureNow],
      [user_id |-> "user2", is_new_user |-> TRUE, device_type |-> "desktop",
       browser |-> "Firefox", country |-> Some("Canada"),
       created_at |-> At(2, 9, 15, 0), updated_at |-> FixtureNow],
      [user_id |-> "user3", is_new_user |-> TRUE, device_type |-> "tablet",
       browser |-> "Safari", country |-> Some("UK"),
       created_at |-> At(3, 16, 45, 0), updated_at |-> FixtureNow],
      [user_id |-> "user_no_country", is_new_user |-> TRUE,
       device_type |-> "desktop", browser |-> "Chrome", country |-> Null,
       created_at |-> FixtureNow, updated_at |-> FixtureNow],
      ReturnVisit>>

PageViewRow(sid, url, d, h, mi, s, secs) ==
    [session_id |-> sid, page_url |-> url, entry_time |-> At(d, h, mi, s),
     exit_time |-> Some(At(d, h, mi, s) + secs * MsPerSecond),
     time_spent |-> Some(secs)]

\* The page view rows the tests of getAnalyticsSummary insert.
FixturePageViews ==
    <<PageViewRow(1, "/home", 0, 10, 0, 0, 150),
      PageViewRow(1, "/products", 0, 10, 2, 30, 150),
      PageViewRow(1, "/about", 0, 10, 5, 0, 90),
      PageViewRow(2, "/home", 1, 14, 30, 0, 30),
      PageViewRow(3, "/products", 2, 9, 15, 0, 180),
      PageViewRow(3, "/contact", 2, 9, 18, 0, 120),
      PageViewRow(4, "/home", 3, 16, 45, 0, 15)>>

\* The position of x among the members of S.
Rank(S, x) == Cardinality({y \in S : y <= x})

Pick(S, k) == CHOOSE x \in S : Rank(S, x) = k

\* The table that holds the rows S of the fixture.
SeedSessions(S) == [k \in 1..Cardinality(S) |-> FixtureSessions[Pick(S, k)]]

SeedPageViews(S, P) ==
    [k \in 1..Cardinality(P) |->
        [FixturePageViews[Pick(P, k)] EXCEPT !.session_id = Rank(S, @)]]

\* The page views of the fixture that may be stored when those before p are:
\* a session's page views are stored in the order of the visit.
VisitSoFar(P, p) ==
    \A q \in DOMAIN FixturePageViews :
        (q < p /\ FixturePageViews[q].session_id = FixturePageViews[p].session_id)
            => q \in P

\* A store that holds some of the fixture's sessions and, of each, the page
\* views up to some point of the visit.
InitQuery ==
    \E S \in SUBSET DOMAIN FixtureSessions :
      \E P \in SUBSET {p \in DOMAIN FixturePageViews :
                          FixturePageViews[p].session_id \in S} :
        /\ \A p \in P : VisitSoFar(P, p)
        /\ userSessions = SeedSessions(S)
        /\ pageViews = SeedPageViews(S, P)
        /\ userAnalytics = <<>>
        /\ calls = <<>>
        /\ now = FixtureNow
        /\ deletedSessions = {}

-----------------------------------------------------------------------------
(* Stores with many pages *)

\* The url of the i-th page of a site.
PageUrlOf(i) == "/page/" \o ToString(i)

\* Three sessions: the first visit of user1, their return visit and the visit
\* of user2 from another country.
PagesSessions == <<FixtureSessions[1], ReturnVisit, FixtureSessions[3]>>

\* The j-th view of a page: the first by user2, the next ones by user1 in
\* the two visits in turn.  The page view is open, as trackEvent stores it.
PageViewOf(i, j) ==
    [session_id |-> IF j = 1 THEN 3 ELSE 1 + (j % 2),
     page_url |-> PageUrlOf(i), entry_time |-> FixtureNow,
     exit_time |-> Null, time_spent |-> Null]

\* The page views of pages 1..n, page i viewed i + more[i] times.
RECURSIVE SeedPages(_, _)
SeedPages(n, more) ==
    IF n = 0 THEN <<>>
    ELSE SeedPages(n - 1, more) \o [j \in 1..(n + more[n]) |-> PageViewOf(n, j)]

\* A store after the three sessions have viewed up to MaxPages pages, page
\* i either i or i + 1 times.
InitPages ==
    \E n \in 0..MaxPages : \E more \in [1..n -> {0, 1}] :
        /\ userSessions = PagesSessions
        /\ pageViews = SeedPages(n, more)
        /\ userAnalytics = <<>>
        /\ calls = <<>>
        /\ now = FixtureNow
        /\ deletedSessions = {}

\* No filter, and the filter by the country of user1.
NoFilters ==
    [start_date |-> Null, end_date |-> Null, country |-> Null,
     device_type |-> Null, page_url |-> Null, is_new_user |-> Null]

PagesFilters == {NoFilters, [NoFilters EXCEPT !.country = Some("USA")]}

-----------------------------------------------------------------------------
(* Faults *)

\* A store statement rejects: the handler's catch block logs the error and
\* rethrows it.  What the call has written so far stays written.
StoreFailure(i) ==
    /\ i \in DOMAIN calls
    /\ ~Finished(calls[i])
    /\ Throw(i, Some("store error"))
    /\ UNCHANGED <<userSessions, pageViews, userAnalytics, now, deletedSessions>>

\* A session row is deleted with the foreign key checks switched off
\* (session_replication_role = replica): its page views stay behind.
DeleteSession ==
    /\ \E s \in DOMAIN userSessions \ deletedSessions :
         deletedSessions' = deletedSessions \cup {s}
    /\ UNCHANGED <<userSessions, pageViews, userAnalytics, calls, now>>

-----------------------------------------------------------------------------
(* AnalyticsTracker *)

\* getUserId(): the id the browser keeps in localStorage.
TrackerUser == "u1"

\* isTracking.current: set on entry to trackPageView and cleared in its
\* finally block, that is while the tracker's trackEvent request is in flight.
IsTracking ==
    \E i \in DOMAIN calls : calls[i].op = "trackEvent" /\ ~Finished(calls[i])

\* currentPageViewId.current: null at first, then response.pageViewId of the
\* latest trackEvent that returned; a failed request leaves it as it was, and
\* endPageView never clears it.
CurrentPageViewId ==
    LET returned == {i \in DOMAIN calls :
                        calls[i].op = "trackEvent" /\ calls[i].pc = "done"}
    IN  IF returned = {} THEN Null
        ELSE calls[CHOOSE i \in returned : \A j \in returned : j <= i].pageViewId

\* The tracker has requests left to send.
Tracking == Len(calls) < MaxTrackerCalls

\* trackingData: user_id, page_url, page_title, ip_address, user_agent,
\* referrer and geolocation; the object has no session_id.
TrackingSessionIds == {Null}

\* trackPageView(url, title): returns at once while isTracking.current, else
\* sends trpc.trackEvent.mutate(trackingData).
TrackPageView ==
    TrackSelectAnalytics(Tracking /\ ~IsTracking, {TrackerUser}, TrackingSessionIds)

\* endPageView(): if (currentPageViewId.current) trpc.endPageView.mutate(
\* {page_view_id: currentPageViewId.current, exit_time: new Date()}).
TrackerEndPageView ==
    EndSelectPageView(Tracking /\ ~IsNull(CurrentPageViewId),
                      {Val(id) : id \in {CurrentPageViewId} \ {Null}}, {now})

-----------------------------------------------------------------------------
(* Specifications *)

Init ==
    /\ userSessions = <<>>
    /\ pageViews = <<>>
    /\ userAnalytics = <<>>
    /\ calls = <<>>
    /\ now = 0
    /\ deletedSessions = {}

\* The statements a call in flight executes next.
Step(i) ==
    \/ TrackSession(i)
    \/ TrackInsertPageView(i)
    \/ TrackWriteAnalytics(i)
    \/ EndUpdatePageView(i)
    \/ EndSelectSession(i)
    \/ EndSelectAnalytics(i)
    \/ EndUpdateAnalytics(i)

\* Requests handled one at a time.
Next ==
    \/ TrackSelectAnalytics(Sequential, Users, SessionIdInputs)
    \/ EndSelectPageView(Sequential, PageViewIdInputs, ExitTimes)
    \/ \E i \in CallIds : Step(i)

Spec == Init /\ [][Next]_vars

\* Requests handled one at a time, over a store whose statements may fail and
\* whose session rows may be deleted from outside.
NextFaults ==
    \/ TrackSelectAnalytics(SequentialFaults, Users, SessionIdInputs)
    \/ EndSelectPageView(SequentialFaults, PageViewIdInputs, ExitTimes)
    \/ \E i \in CallIds : Step(i)
    \/ \E i \in CallIds : StoreFailure(i)
    \/ DeleteSession

SpecFaults == Init /\ [][NextFaults]_vars

\* One query over a stored set of sessions and page views.
QueryOnce == calls = <<>>

\* The filters of a session query: those of the summary, and an empty country.
SessionFilterInputs ==
    FilterInputs \cup {[f EXCEPT !.country = Some("")] : f \in FilterInputs}

NextQuery ==
    \/ GetAnalyticsSummary(QueryOnce, FilterInputs)
    \/ GetUserSessions(QueryOnce, SessionFilterInputs)

SpecQuery == InitQuery /\ [][NextQuery]_vars

\* One summary query over a store with many pages.
NextPages == GetAnalyticsSummary(QueryOnce, PagesFilters)

SpecPages == InitPages /\ [][NextPages]_vars

\* The date ranges of a read query: each end absent or at a tick of the clock.
DateFilterInputs ==
    {[NoFilters EXCEPT !.start_date = a, !.end_date = b] :
        a, b \in {Null} \cup {Some(k * TickMs) : k \in 0..MaxTicks}}

\* The filters of the other read queries.
ReadFilterInputs == {NoFilters, [NoFilters EXCEPT !.is_new_user = Some(FALSE)]}

\* Requests handled one at a time: the two mutations, then one of the four
\* queries.  A query changes no row, so the stores it may see are those the
\* mutations reach; the mutations carry ids returned by earlier calls, and a
\* page view is ended at the latest exit time.
NextReads ==
    \/ TrackSelectAnalytics(Reading, Users, SessionIdInputs \ {Some(UnknownId)})
    \/ EndSelectPageView(Reading, DOMAIN pageViews, {MaxTicks * TickMs})
    \/ \E i \in CallIds : Step(i)
    \/ GetAnalyticsSummary(Querying, ReadFilterInputs)
    \/ GetUserSessions(Querying, ReadFilterInputs)
    \/ GetPageViews(Querying, ReadFilterInputs)
    \/ GetUserAnalytics(Querying, DateFilterInputs)

SpecReads == Init /\ [][NextReads]_vars

\* One call of the user agent parser.
NextAgents == ParseUserAgent(QueryOnce, UserAgents)

SpecAgents == Init /\ [][NextAgents]_vars

\* Concurrent requests: the statements of the calls in flight interleave.
NextConc ==
    \/ TrackSelectAnalytics(Concurrent, Users, SessionIdInputs)
    \/ EndSelectPageView(Concurrent, PageViewIdInputs, ExitTimes)
    \/ \E i \in CallIds : Step(i)

SpecConc == Init /\ [][NextConc]_vars

\* The requests of a single tracker instance racing each other: every call is
\* for the same user, carries ids returned by earlier calls, and a page view
\* is ended at the latest exit time.
NextRace ==
    \/ TrackSelectAnalytics(Racing, {"u1"}, SessionIdInputs \ {Some(UnknownId)})
    \/ EndSelectPageView(Racing, DOMAIN pageViews, {MaxTicks * TickMs})
    \/ \E i \in CallIds : Step(i)

SpecRace == Init /\ [][NextRace]_vars

\* One mounted AnalyticsTracker: page loads and navigations call trackPageView,
\* navigations, hiding the page, unloading and unmounting call endPageView, and
\* the server handles the requests statement by statement.
NextTracker ==
    \/ TrackPageView
    \/ TrackerEndPageView
    \/ \E i \in CallIds : Step(i)

SpecTracker == Init /\ [][NextTracker]_vars

-----------------------------------------------------------------------------
(* Vocabulary of the properties *)

Abs(x) == IF x < 0 THEN 0 - x ELSE x

IsTrack(c) == c.op = "trackEvent"

IsEnd(c) == c.op = "endPageView"

\* The trackEvent calls that returned a result.
TracksDone == {i \in DOMAIN calls : IsTrack(calls[i]) /\ calls[i].pc = "done"}

\* The endPageView calls that returned a result.
EndsDone == {i \in DOMAIN calls : IsEnd(calls[i]) /\ calls[i].pc = "done"}

\* Call i returns in this step.
Returns(i) == calls[i].pc # "done" /\ calls'[i].pc = "done"

IsOpen(pv) == IsNull(pv.exit_time) /\ IsNull(pv.time_spent)

IsClosed(pv) == ~IsNull(pv.exit_time)

RECURSIVE SumTimeSpent(_)
SumTimeSpent(ids) ==
    IF ids = {} THEN 0
    ELSE LET i == CHOOSE j \in ids : TRUE
         IN  calls[i].timeSpentSeconds + SumTimeSpent(ids \ {i})

-----------------------------------------------------------------------------
(* C1: every aggregate row has page_views_per_session equal to
   total_page_views / total_sessions at two decimals (the nearest hundredth),
   and equal to 0 when total_sessions is 0. *)
C1_PageViewsPerSession ==
    \A r \in DOMAIN userAnalytics :
        LET a == userAnalytics[r] IN
        IF a.total_sessions = 0
        THEN a.page_views_per_session = 0
        ELSE 2 * Abs(100 * a.total_page_views
                     - a.page_views_per_session * a.total_sessions)
                <= a.total_sessions

\* A returning user's aggregate after a reused and a new session: 3 views in
\* 2 sessions.
C1_Witness ==
    /\ InFlight = {}
    /\ \E r \in DOMAIN userAnalytics :
         /\ userAnalytics[r].total_sessions = 2
         /\ userAnalytics[r].total_page_views = 3
         /\ userAnalytics[r].page_views_per_session = 150

(* C2: no aggregate update of trackEvent is lost.  Once every call has
   returned, a user's total_page_views is 1 (the creating call) plus the
   number of successful trackEvent calls that found the aggregate, and
   total_sessions is 1 plus the number of those that created a session. *)
C2_NoLostUpdate ==
    InFlight = {} =>
        \A r \in DOMAIN userAnalytics :
            LET u == userAnalytics[r].user_id
                returning == {i \in TracksDone :
                                calls[i].user_id = u /\ ~calls[i].isNewUser}
                created == {i \in returning : IsNull(calls[i].session_id)}
            IN  /\ userAnalytics[r].total_page_views = 1 + Cardinality(returning)
                /\ userAnalytics[r].total_sessions = 1 + Cardinality(created)

(* C3: no aggregate update of endPageView is lost.  Once every call has
   returned, and the endPageView calls closed distinct page views, a user's
   total_time_spent is the sum of the durations computed by the successful
   endPageView calls that found the aggregate. *)
C3_NoLostTimeSpent ==
    (/\ InFlight = {}
     /\ \A i, j \in EndsDone :
            i # j => calls[i].page_view_id # calls[j].page_view_id)
    => \A r \in DOMAIN userAnalytics :
          userAnalytics[r].total_time_spent =
              SumTimeSpent({i \in EndsDone :
                              /\ ~IsNull(calls[i].existingAnalytics)
                              /\ calls[i].userId = Some(userAnalytics[r].user_id)})

(* C4: the session row a trackEvent inserts has is_new_user true exactly when
   no aggregate row of its user exists at the moment of the insert. *)
C4_IsNewUserAtCreation ==
    [][Len(userSessions') > Len(userSessions) =>
         LET s == userSessions'[Len(userSessions')]
         IN  s.is_new_user = (SelectAnalytics(s.user_id) = {})]_vars

(* C5: for a user whose aggregate exists, a successful trackEvent raises
   total_page_views by exactly 1, and total_sessions by 1 when no session_id
   was supplied and by 0 when one was; the aggregate changes only in the step
   in which a call returns. *)
C5_ReturningUserCounters ==
    [][/\ \A i \in DOMAIN calls :
            (IsTrack(calls[i]) /\ Returns(i)
               /\ SelectAnalytics(calls[i].user_id) # {})
            => \A r \in SelectAnalytics(calls[i].user_id) :
                  /\ userAnalytics'[r].total_page_views
                        = userAnalytics[r].total_page_views + 1
                  /\ userAnalytics'[r].total_sessions
                        = userAnalytics[r].total_sessions
                            + (IF IsNull(calls[i].session_id) THEN 1 ELSE 0)
       /\ userAnalytics' # userAnalytics
            => \E i \in DOMAIN calls : Returns(i)]_vars

\* A returning user has tracked one event in a reused session and one in a
\* new session.
C5_Witness ==
    \E i, j \in TracksDone :
        /\ ~calls[i].isNewUser /\ ~IsNull(calls[i].session_id)
        /\ ~calls[j].isNewUser /\ IsNull(calls[j].session_id)

(* C6: for a user without an aggregate, a successful trackEvent leaves exactly
   one aggregate row of that user, with total_sessions = 1,
   total_page_views = 1, total_time_spent = 0, first_visit = last_visit,
   page_views_per_session = 1.00 and average_session_duration = 0.00; with
   no session_id supplied, the session it created has is_new_user = true. *)
C6_NewUserAggregate ==
    [][\A i \in DOMAIN calls :
          (IsTrack(calls[i]) /\ Returns(i)
             /\ SelectAnalytics(calls[i].user_id) = {})
          => LET u == calls[i].user_id
                 rows == {r \in DOMAIN userAnalytics' :
                            userAnalytics'[r].user_id = u}
             IN  /\ Cardinality(rows) = 1
                 /\ \A r \in rows :
                      /\ userAnalytics'[r].total_sessions = 1
                      /\ userAnalytics'[r].total_page_views = 1
                      /\ userAnalytics'[r].total_time_spent = 0
                      /\ userAnalytics'[r].first_visit = userAnalytics'[r].last_visit
                      /\ userAnalytics'[r].first_visit = now'
                      /\ userAnalytics'[r].page_views_per_session = 100
                      /\ userAnalytics'[r].average_session_duration = 0
                 /\ IsNull(calls[i].session_id) =>
                      /\ userSessions'[Val(calls'[i].sessionId)].is_new_user
                      /\ userSessions'[Val(calls'[i].sessionId)].user_id = u]_vars

\* Both users were new: each got its aggregate from its first event.
C6_Witness ==
    /\ Len(userAnalytics) = 2
    /\ \E i \in TracksDone : calls[i].isNewUser /\ IsNull(calls[i].session_id)

(* C7: every successful trackEvent created exactly one page view, owned by
   the effective session and open when the call returns; the returned
   sessionId is the supplied session_id, or else the id of a session this
   call created; the returned pageViewId is the id of the new page view. *)
C7_TrackResult ==
    LET inserted == {i \in DOMAIN calls :
                       IsTrack(calls[i]) /\ ~IsNull(calls[i].pageViewId)}
        creators == {i \in DOMAIN calls :
                       /\ IsTrack(calls[i]) /\ IsNull(calls[i].session_id)
                       /\ ~IsNull(calls[i].sessionId)}
    IN  /\ Len(pageViews) = Cardinality(inserted)
        /\ Len(userSessions) = Cardinality(creators)
        /\ \A i, j \in inserted :
              i # j => calls[i].pageViewId # calls[j].pageViewId
        /\ \A i, j \in creators :
              i # j => calls[i].sessionId # calls[j].sessionId
        /\ \A i \in TracksDone :
              /\ i \in inserted
              /\ PageViewExists(Val(calls[i].pageViewId))
              /\ ~IsNull(calls[i].sessionId)
              /\ pageViews[Val(calls[i].pageViewId)].session_id
                    = Val(calls[i].sessionId)
              /\ ~IsNull(calls[i].session_id)
                    => calls[i].sessionId = calls[i].session_id
              /\ IsNull(calls[i].session_id)
                    => /\ SessionExists(Val(calls[i].sessionId))
                       /\ userSessions[Val(calls[i].sessionId)].user_id
                             = calls[i].user_id
              /\ i = Len(calls) => IsOpen(pageViews[Val(calls[i].pageViewId)])

\* The last call returned a new page view in a session the caller supplied,
\* after an earlier call had created that session.
C7_Witness ==
    /\ Len(calls) >= 2
    /\ Len(calls) \in TracksDone
    /\ ~IsNull(calls[Len(calls)].session_id)
    /\ \E j \in TracksDone :
          /\ IsNull(calls[j].session_id)
          /\ calls[j].sessionId = calls[Len(calls)].sessionId

(* C8: a closed page view has time_spent = max(0, floor((exit_time -
   entry_time) / 1000)): 0 when exit_time is before entry_time, otherwise
   the whole seconds of the interval; never negative. *)
C8_TimeSpent ==
    \A p \in DOMAIN pageViews :
        IsClosed(pageViews[p]) =>
            LET d == Val(pageViews[p].exit_time) - pageViews[p].entry_time
                secs == Val(pageViews[p].time_spent)
            IN  /\ secs >= 0
                /\ d < 0 => secs = 0
                /\ d >= 0 => /\ secs * MsPerSecond <= d
                             /\ d < (secs + 1) * MsPerSecond

\* A page view closed with an exit_time before its entry_time.
C8_Witness ==
    \E p \in DOMAIN pageViews :
        /\ IsClosed(pageViews[p])
        /\ Val(pageViews[p].exit_time) < pageViews[p].entry_time
        /\ pageViews[p].time_spent = Some(0)

(* C9: two endPageView calls on the same page view with the same exit_time
   return the same time_spent and the same exit_time. *)
C9_Idempotent ==
    \A i, j \in DOMAIN calls :
        (/\ IsEnd(calls[i]) /\ IsEnd(calls[j])
         /\ ~IsNull(calls[i].updatedPageView)
         /\ ~IsNull(calls[j].updatedPageView)
         /\ calls[i].page_view_id = calls[j].page_view_id
         /\ calls[i].exit_time = calls[j].exit_time)
        => /\ Val(calls[i].updatedPageView).time_spent
                = Val(calls[j].updatedPageView).time_spent
           /\ Val(calls[i].updatedPageView).exit_time
                = Val(calls[j].updatedPageView).exit_time

\* The same page view closed twice with the same exit_time, a second or more
\* after it was entered.
C9_Witness ==
    \E i, j \in EndsDone :
        /\ i # j
        /\ calls[i].page_view_id = calls[j].page_view_id
        /\ calls[i].exit_time = calls[j].exit_time
        /\ calls[i].timeSpentSeconds > 0

(* C10 as claimed: a page view is closed at most once; after it is closed no
   step changes its exit_time or time_spent. *)
C10_ClosedOnce ==
    [][\A p \in DOMAIN pageViews :
          IsClosed(pageViews[p]) =>
              /\ pageViews'[p].exit_time = pageViews[p].exit_time
              /\ pageViews'[p].time_spent = pageViews[p].time_spent]_vars

(* C10 amended: a closed page view stays closed, and a later endPageView with
   the same exit_time leaves its exit_time and time_spent unchanged; a later
   endPageView with another exit_time overwrites both. *)
C10_ClosedStaysClosed ==
    [][\A p \in DOMAIN pageViews :
          IsClosed(pageViews[p]) =>
              /\ IsClosed(pageViews'[p])
              /\ ~IsNull(pageViews'[p].time_spent)
              /\ pageViews'[p].exit_time = pageViews[p].exit_time
                    => pageViews'[p].time_spent = pageViews[p].time_spent]_vars

\* A page view closed twice, with different exit times.
C10_Witness ==
    \E i, j \in EndsDone :
        /\ calls[i].page_view_id = calls[j].page_view_id
        /\ calls[i].exit_time # calls[j].exit_time

(* C11: endPageView with a page_view_id that matches no page view fails with
   the error "Page view with id <id> not found" and leaves every page view,
   session and aggregate row unchanged; a failed call executes no further
   statement. *)
C11_UnknownPageView ==
    [][/\ \A i \in DOMAIN calls' \ DOMAIN calls :
            (IsEnd(calls'[i]) /\ ~PageViewExists(calls'[i].page_view_id))
            => /\ calls'[i].pc = "failed"
               /\ calls'[i].error = Some("Page view not found")
               /\ userSessions' = userSessions
               /\ pageViews' = pageViews
               /\ userAnalytics' = userAnalytics
       /\ \A i \in DOMAIN calls :
            calls[i].pc = "failed" => calls'[i] = calls[i]]_vars

\* An endPageView with an unknown id failed over a store that holds page
\* views and aggregates, and a later call was handled after it.
C11_Witness ==
    \E i \in DOMAIN calls :
        /\ IsEnd(calls[i]) /\ calls[i].pc = "failed"
        /\ calls[i].error = Some("Page view not found")
        /\ calls[i].page_view_id = UnknownId
        /\ Len(pageViews) > 0 /\ Len(userAnalytics) > 0
        /\ i < Len(calls)

(* C12: when the page view exists but the row of its owning session is
   missing, endPageView fails with the error "Session with id <id> not
   found"; the exit_time and time_spent it wrote to the page view are in the
   store at that point and stay there, and the call modifies no aggregate
   row. *)
C12_MissingSession ==
    [][\A i \in DOMAIN calls :
          LET c == calls[i] IN
          /\ (/\ IsEnd(c) /\ c.pc = "selectSession"
               /\ ~SessionExists(Val(c.updatedPageView).session_id)
               /\ calls'[i] # c
               /\ calls'[i].error # Some("store error"))
              => /\ calls'[i].pc = "failed"
                 /\ calls'[i].error = Some("Session not found")
                 /\ pageViews' = pageViews
                 /\ pageViews'[c.page_view_id].exit_time = Some(c.exit_time)
                 /\ pageViews'[c.page_view_id].time_spent
                        = Some(c.timeSpentSeconds)
                 /\ userAnalytics' = userAnalytics
          /\ (IsEnd(c) /\ c.pc \in {"updatePageView", "selectSession"})
              => userAnalytics' = userAnalytics
          /\ (IsEnd(c) /\ c.pc = "failed") => calls'[i] = c]_vars

\* An endPageView failed on the missing session of a page view it had closed
\* a second or more after its entry, while the owner's aggregate exists.
C12_Witness ==
    \E i \in DOMAIN calls :
        /\ IsEnd(calls[i]) /\ calls[i].pc = "failed"
        /\ calls[i].error = Some("Session not found")
        /\ calls[i].timeSpentSeconds > 0
        /\ pageViews[calls[i].page_view_id].exit_time = Some(calls[i].exit_time)
        /\ pageViews[calls[i].page_view_id].time_spent
              = Some(calls[i].timeSpentSeconds)
        /\ Len(userAnalytics) > 0

(* C13: when the user owning the page view's session has no aggregate row,
   endPageView succeeds and returns the updated page view, with exit_time
   and time_spent set as stored, and creates no aggregate row; no statement
   of an endPageView call adds an aggregate row. *)
C13_NoAggregate ==
    [][\A i \in DOMAIN calls :
          LET c == calls[i] IN
          /\ (/\ IsEnd(c) /\ c.pc = "selectAnalytics"
               /\ SelectAnalytics(Val(c.userId)) = {}
               /\ calls'[i] # c
               /\ calls'[i].error # Some("store error"))
              => /\ calls'[i].pc = "done"
                 /\ IsNull(calls'[i].error)
                 /\ calls'[i].updatedPageView = Some(pageViews'[c.page_view_id])
                 /\ pageViews'[c.page_view_id].exit_time = Some(c.exit_time)
                 /\ pageViews'[c.page_view_id].time_spent
                       = Some(TimeSpentSeconds(
                                pageViews'[c.page_view_id].entry_time, c.exit_time))
                 /\ userAnalytics' = userAnalytics
          /\ (IsEnd(c) /\ calls'[i] # c)
              => Len(userAnalytics') = Len(userAnalytics)]_vars

\* An endPageView returned a page view closed a second or more after its
\* entry, and the session's user has no aggregate row.
C13_Witness ==
    \E i \in EndsDone :
        /\ IsNull(calls[i].existingAnalytics)
        /\ calls[i].timeSpentSeconds > 0
        /\ SelectAnalytics(Val(calls[i].userId)) = {}
        /\ calls[i].updatedPageView = Some(pageViews[calls[i].page_view_id])

(* C14: when the owning user's aggregate exists, a successful endPageView
   with computed duration d sets total_time_spent to the old value plus d,
   last_visit to the supplied exit_time, and average_session_duration to the
   old value plus d / total_sessions, at the two decimals the column
   stores. *)
C14_AggregateUpdate ==
    [][\A i \in DOMAIN calls :
          (/\ IsEnd(calls[i]) /\ Returns(i)
           /\ SelectAnalytics(Val(calls[i].userId)) # {})
          => LET c == calls[i]
                 d == TimeSpentSeconds(pageViews[c.page_view_id].entry_time,
                                       c.exit_time)
             IN  \A r \in SelectAnalytics(Val(c.userId)) :
                    LET old == userAnalytics[r]
                        new == userAnalytics'[r]
                    IN  /\ new.total_time_spent = old.total_time_spent + d
                        /\ new.last_visit = c.exit_time
                        /\ 2 * Abs(new.average_session_duration * old.total_sessions
                                    - (old.average_session_duration * old.total_sessions
                                       + 100 * d))
                              <= old.total_sessions]_vars

\* The last call closed a page view after one second for a user with two
\* sessions: the average rose by 0.50 and the total by 1.
C14_Witness ==
    /\ Len(calls) \in EndsDone
    /\ LET c == calls[Len(calls)] IN
       /\ ~IsNull(c.existingAnalytics)
       /\ Val(c.existingAnalytics).total_sessions = 2
       /\ c.timeSpentSeconds = 1
       /\ \E r \in SelectAnalytics(Val(c.userId)) :
             /\ userAnalytics[r].average_session_duration
                   = Val(c.existingAnalytics).average_session_duration + 50
             /\ userAnalytics[r].total_time_spent
                   = Val(c.existingAnalytics).total_time_spent + 1
             /\ userAnalytics[r].last_visit = c.exit_time

\* The page views recorded for user u: those of the sessions of u.
PageViewsOf(u) ==
    {p \in DOMAIN pageViews :
        userSessions[pageViews[p].session_id].user_id = u}

\* Every request of the run is for user u and no session row was deleted.
OnlyUser(u) ==
    /\ deletedSessions = {}
    /\ \A k \in DOMAIN calls : IsTrack(calls[k]) => calls[k].user_id = u

(* C15: if a trackEvent call stopped after its page view was created and
   before its aggregate write was applied, then once the next trackEvent of
   the same user has returned, the user's total_page_views equals the number
   of page views recorded for that user. *)
C15_RepairedByNextEvent ==
    \A i, j \in DOMAIN calls :
        (/\ i < j /\ j = Len(calls)
         /\ IsTrack(calls[i]) /\ calls[i].pc = "failed"
         /\ ~IsNull(calls[i].pageViewId)
         /\ IsTrack(calls[j]) /\ calls[j].pc = "done"
         /\ calls[j].user_id = calls[i].user_id
         /\ OnlyUser(calls[i].user_id))
        => \A r \in SelectAnalytics(calls[i].user_id) :
              userAnalytics[r].total_page_views
                  = Cardinality(PageViewsOf(calls[i].user_id))

\* The getAnalyticsSummary calls that returned a result.
Queries == {i \in DOMAIN calls : calls[i].op = "getAnalyticsSummary"}

\* The page views of session s, whatever the filters.
PageViewsIn(s) == {p \in DOMAIN pageViews : pageViews[p].session_id = s}

\* The numbers 50 and 100
Fifty == DFromNat(50)

Hundred == DFromNat(100)

(* C16: for every stored set of sessions and page views and every filter,
   bounce_rate is 100 * (number of matching sessions with exactly one page
   view in all) / total_sessions, computed as (bounces / total_sessions) *
   100 in binary64; it is 0 when total_sessions is 0 and always lies between
   0 and 100. *)
C16_BounceRate ==
    \A i \in Queries :
        LET r == calls[i].result
            M == MatchingSessions(calls[i].filters)
            bounces == {s \in M : Cardinality(PageViewsIn(s)) = 1}
        IN  /\ r.total_sessions = Cardinality(M)
            /\ r.total_sessions = 0 => r.bounce_rate = DZero
            /\ r.total_sessions > 0 =>
                  r.bounce_rate = DMulNat(DDiv(Cardinality(bounces),
                                               r.total_sessions), 100)
            /\ 2 * Cardinality(bounces) = r.total_sessions /\ r.total_sessions > 0
                  => r.bounce_rate = Fifty
            /\ DLeq(DZero, r.bounce_rate)
            /\ DLeq(r.bounce_rate, Hundred)

\* A filtered query over three matching sessions: one without page views,
\* one with a single page view and one with several.
C16_Witness ==
    \E i \in Queries :
        LET M == MatchingSessions(calls[i].filters) IN
        /\ ~IsNull(calls[i].filters.is_new_user)
        /\ Cardinality(M) = 3
        /\ \E a, b, c \in M :
              /\ Cardinality(PageViewsIn(a)) = 0
              /\ Cardinality(PageViewsIn(b)) = 1
              /\ Cardinality(PageViewsIn(c)) > 1
        /\ calls[i].result.bounce_rate = DMulNat(DDiv(1, 3), 100)

\* breakdown.reduce((sum, browser) => sum + browser.percentage, 0)
RECURSIVE PercentageSum(_)
PercentageSum(breakdown) ==
    IF breakdown = <<>> THEN DZero
    ELSE DAdd(PercentageSum(SubSeq(breakdown, 1, Len(breakdown) - 1)),
              breakdown[Len(breakdown)].percentage)

\* 99.9999 and 100.0001
SumLow == DDiv(999999, 10000)

SumHigh == DDiv(1000001, 10000)

\* The statement of C17 as written: the percentages of a non-empty
\* browser_breakdown add up to exactly 100.
C17_SumIsExactly100 ==
    \A i \in Queries :
        LET b == calls[i].result.browser_breakdown IN
        b # <<>> => PercentageSum(b) = Hundred

(* C17: whenever browser_breakdown is non-empty, each entry's percentage is
   (users / sum of the returned entries' users) * 100 in binary64, and the
   percentages add up to 100 within rounding error: the sum lies between
   99.9999 and 100.0001. *)
C17_SumWithinTolerance ==
    \A i \in Queries :
        LET b == calls[i].result.browser_breakdown
            total == TotalBrowserUsers(b)
            sum == PercentageSum(b)
        IN  b # <<>> =>
              /\ total > 0
              /\ \A k \in DOMAIN b :
                    b[k].percentage = DMulNat(DDiv(b[k].users, total), 100)
              /\ DLeq(SumLow, sum)
              /\ DLeq(sum, SumHigh)

\* A breakdown of one browser with two users and one browser with one user:
\* the percentages are those of 2/3 and 1/3, and their sum is not 100.
C17_Witness ==
    \E i \in Queries :
        LET b == calls[i].result.browser_breakdown IN
        /\ Len(b) = 2
        /\ b[1].users = 2
        /\ b[2].users = 1
        /\ b[1].percentage = DMulNat(DDiv(2, 3), 100)
        /\ PercentageSum(b) # Hundred

\* The user_ids of the sessions in M whose browser is b.
BrowserUsers(M, b) ==
    {userSessions[s].user_id : s \in {t \in M : userSessions[t].browser = b}}

(* C18: browser_breakdown has exactly one entry for each distinct browser
   among the matching sessions, and each entry's users is the number of
   distinct user_ids that have a matching session with that browser. *)
C18_BrowserBreakdown ==
    \A i \in Queries :
        LET b == calls[i].result.browser_breakdown
            M == MatchingSessions(calls[i].filters)
            browsers == {userSessions[s].browser : s \in M}
        IN  /\ {b[k].browser : k \in DOMAIN b} = browsers
            /\ Len(b) = Cardinality(browsers)
            /\ \A k \in DOMAIN b :
                  b[k].users = Cardinality(BrowserUsers(M, b[k].browser))

\* Three browsers among the matching sessions, one of them used in three
\* sessions of two users.
C18_Witness ==
    \E i \in Queries :
        LET b == calls[i].result.browser_breakdown
            M == MatchingSessions(calls[i].filters)
        IN  /\ Len(b) = 3
            /\ \E k \in DOMAIN b :
                  /\ b[k].users = 2
                  /\ Cardinality({s \in M : userSessions[s].browser = b[k].browser}) = 3

\* The matching sessions whose country is c.
SessionsIn(M, c) == {s \in M : userSessions[s].country = Some(c)}

(* C19: a session whose country is null is in no top_countries entry (every
   entry names the non-null country of a matching session and counts only
   the sessions of that country, and there is no entry for null or
   "unknown"), yet it is counted in total_sessions and total_users. *)
C19_NullCountry ==
    \A i \in Queries :
        LET r == calls[i].result
            M == MatchingSessions(calls[i].filters)
            countries == {userSessions[s].country :
                            s \in {t \in M : ~IsNull(userSessions[t].country)}}
        IN  /\ {Some(r.top_countries[k].country) : k \in DOMAIN r.top_countries}
                  = countries
            /\ Len(r.top_countries) = Cardinality(countries)
            /\ \A k \in DOMAIN r.top_countries :
                  LET e == r.top_countries[k] IN
                  /\ e.country \notin {"", "null", "unknown", "Unknown"}
                  /\ e.sessions = Cardinality(SessionsIn(M, e.country))
                  /\ e.users = Cardinality({userSessions[s].user_id :
                                              s \in SessionsIn(M, e.country)})
            /\ r.total_sessions = Cardinality(M)
            /\ r.total_users = Cardinality({userSessions[s].user_id : s \in M})

\* A matching session without a country beside sessions with one: its user
\* is in total_users and in no entry of top_countries.
C19_Witness ==
    \E i \in Queries :
        LET r == calls[i].result
            M == MatchingSessions(calls[i].filters)
        IN  /\ r.top_countries # <<>>
            /\ \E s \in M :
                  /\ IsNull(userSessions[s].country)
                  /\ \A t \in M \ {s} :
                        userSessions[t].user_id # userSessions[s].user_id
            /\ r.total_users = 2
            /\ r.total_sessions = 2
            /\ Len(r.top_countries) = 1
            /\ r.top_countries[1].users = 1
            /\ r.top_countries[1].sessions = 1

(* C20: a page_url filter changes nothing of the summary but top_pages (the
   same query without it has the same totals, new and returning users,
   average duration, bounce rate, top_countries, device_breakdown and
   browser_breakdown), and top_pages then holds only the entry of that
   page_url, with its views among the matching sessions, or nothing when no
   matching session viewed it. *)
C20_PageUrlFilter ==
    \A i \in Queries :
        LET f == calls[i].filters
            r == calls[i].result
            unfiltered == [f EXCEPT !.page_url = Null]
            basicMetrics == BasicMetrics(unfiltered)
            pageViewMetrics == PageViewMetrics(unfiltered)
            viewed == {p \in DOMAIN pageViews :
                         /\ pageViews[p].session_id \in MatchingSessions(f)
                         /\ Some(pageViews[p].page_url) = f.page_url}
        IN  ~IsNull(f.page_url) =>
              /\ r.total_users = basicMetrics.total_users
              /\ r.total_sessions = basicMetrics.total_sessions
              /\ r.new_users = basicMetrics.new_users
              /\ r.returning_users = basicMetrics.returning_users
              /\ r.total_page_views = pageViewMetrics.total_page_views
              /\ r.average_session_duration =
                    IF IsNull(pageViewMetrics.avg_session_duration) THEN DZero
                    ELSE Val(pageViewMetrics.avg_session_duration)
              /\ r.bounce_rate = BounceRate(basicMetrics, pageViewMetrics)
              /\ r.top_countries \in TopCountries(unfiltered)
              /\ r.device_breakdown = DeviceBreakdown(unfiltered)
              /\ \E browserData \in BrowserData(unfiltered) :
                    r.browser_breakdown = BrowserBreakdown(browserData)
              /\ Len(r.top_pages) = IF viewed = {} THEN 0 ELSE 1
              /\ \A k \in DOMAIN r.top_pages :
                    /\ Some(r.top_pages[k].page_url) = f.page_url
                    /\ r.top_pages[k].views = Cardinality(viewed)
                    /\ r.top_pages[k].unique_views =
                          Cardinality({pageViews[p].session_id : p \in viewed})

\* A query filtered by page_url and by country whose matching sessions have
\* page views of other pages too.
C20_Witness ==
    \E i \in Queries :
        LET f == calls[i].filters
            r == calls[i].result
        IN  /\ ~IsNull(f.page_url)
            /\ ~IsNull(f.country)
            /\ Len(r.top_pages) = 1
            /\ r.top_pages[1].views = 2
            /\ r.total_page_views = 4
            /\ r.top_countries # <<>>

\* The page views of url u among the page views J.
ViewsOf(J, u) == {p \in J : pageViews[p].page_url = u}

(* C21: top_pages has at most 10 entries, one for each page_url viewed in a
   matching session (all of them when there are at most 10); each entry's
   views is the number of those page views and its unique_views the number
   of distinct sessions among them; the entries are in non-increasing order
   of views, and no page_url left out has more views than one included. *)
C21_TopPages ==
    \A i \in Queries :
        LET f == calls[i].filters
            top == calls[i].result.top_pages
            J == {p \in DOMAIN pageViews :
                    /\ pageViews[p].session_id \in MatchingSessions(f)
                    /\ IsNull(f.page_url) \/ Some(pageViews[p].page_url) = f.page_url}
            urls == {pageViews[p].page_url : p \in J}
            included == {top[k].page_url : k \in DOMAIN top}
        IN  /\ Len(top) <= 10
            /\ Len(top) = IF Cardinality(urls) < 10 THEN Cardinality(urls) ELSE 10
            /\ included \subseteq urls
            /\ Cardinality(included) = Len(top)
            /\ \A k \in DOMAIN top :
                  /\ top[k].views = Cardinality(ViewsOf(J, top[k].page_url))
                  /\ top[k].unique_views =
                        Cardinality({pageViews[p].session_id :
                                       p \in ViewsOf(J, top[k].page_url)})
                  /\ k > 1 => top[k - 1].views >= top[k].views
                  /\ \A u \in urls \ included :
                        Cardinality(ViewsOf(J, u)) <= top[k].views

\* Eleven pages viewed in the matching sessions: ten entries, the page left
\* out has as many views as the last entry, which two sessions viewed.
C21_Witness ==
    \E i \in Queries :
        LET f == calls[i].filters
            top == calls[i].result.top_pages
            J == {p \in DOMAIN pageViews :
                    pageViews[p].session_id \in MatchingSessions(f)}
            urls == {pageViews[p].page_url : p \in J}
        IN  /\ Cardinality(urls) = 11
            /\ Len(top) = 10
            /\ top[10].unique_views = 2
            /\ top[1].views > top[10].views
            /\ \E u \in urls \ {top[k].page_url : k \in DOMAIN top} :
                  Cardinality(ViewsOf(J, u)) = top[10].views

(* C22: for every filter, new_users is the number of matching sessions with
   is_new_user = true and returning_users the number with is_new_user =
   false, so that new_users + returning_users = total_sessions. *)
C22_SessionCounts ==
    \A i \in Queries :
        LET r == calls[i].result
            M == MatchingSessions(calls[i].filters)
        IN  /\ r.new_users = Cardinality({s \in M : userSessions[s].is_new_user})
            /\ r.returning_users =
                  Cardinality({s \in M : ~userSessions[s].is_new_user})
            /\ r.new_users + r.returning_users = r.total_sessions
            /\ r.total_sessions = Cardinality(M)

\* A filtered query in which one user has two returning sessions: the two
\* counts add up to more than total_users.
C22_Witness ==
    \E i \in Queries :
        LET r == calls[i].result IN
        /\ ~IsNull(calls[i].filters.country)
        /\ r.new_users = 1
        /\ r.returning_users = 2
        /\ r.total_sessions = 3
        /\ r.total_users = 1

\* Session row s satisfies every predicate that filters f supply.
Satisfies(s, f) ==
    /\ ~IsNull(f.start_date) => s.created_at >= Val(f.start_date)
    /\ ~IsNull(f.end_date) => s.created_at <= Val(f.end_date)
    /\ ~IsNull(f.country) => s.country = f.country
    /\ ~IsNull(f.device_type) => s.device_type = Val(f.device_type)
    /\ ~IsNull(f.is_new_user) => s.is_new_user = Val(f.is_new_user)

(* C23: for every filter, total_users is the number of distinct user_ids of
   the matching sessions, total_sessions the number of matching sessions and
   total_page_views the number of page views of the matching sessions; the
   date range selects sessions by created_at, whatever the entry_time of
   their page views. *)
C23_Totals ==
    \A i \in Queries :
        LET f == calls[i].filters
            r == calls[i].result
            M == {s \in DOMAIN userSessions : Satisfies(userSessions[s], f)}
        IN  /\ r.total_users = Cardinality({userSessions[s].user_id : s \in M})
            /\ r.total_sessions = Cardinality(M)
            /\ r.total_page_views =
                  Cardinality({p \in DOMAIN pageViews : pageViews[p].session_id \in M})

\* A query with a date range whose matching sessions have a page view
\* entered after end_date: the page view is counted.
C23_Witness ==
    \E i \in Queries :
        LET f == calls[i].filters
            r == calls[i].result
        IN  /\ ~IsNull(f.start_date)
            /\ ~IsNull(f.end_date)
            /\ r.total_sessions = 2
            /\ r.total_users = 2
            /\ r.total_page_views = 3
            /\ \E p \in DOMAIN pageViews :
                  /\ Satisfies(userSessions[pageViews[p].session_id], f)
                  /\ pageViews[p].entry_time > Val(f.end_date)

\* The getUserSessions calls.
SessionQueries == {i \in DOMAIN calls : calls[i].op = "getUserSessions"}

\* A string filter is supplied when it is present and not empty.
Supplied(x) == ~IsNull(x) /\ x # Some("")

(* C24: getUserSessions returns, once each, exactly the sessions that
   satisfy all the supplied predicates together: created_at >= start_date,
   created_at <= end_date, country equal, device_type equal and is_new_user
   equal, the last also when the filter is false. *)
C24_SessionFilters ==
    \A i \in SessionQueries :
        LET f == calls[i].filters
            r == calls[i].result
        IN  /\ Len(r) = Cardinality({r[k] : k \in DOMAIN r})
            /\ {r[k] : k \in DOMAIN r} =
                  {s \in DOMAIN userSessions :
                      /\ ~IsNull(f.start_date) =>
                            userSessions[s].created_at >= Val(f.start_date)
                      /\ ~IsNull(f.end_date) =>
                            userSessions[s].created_at <= Val(f.end_date)
                      /\ Supplied(f.country) => userSessions[s].country = f.country
                      /\ Supplied(f.device_type) =>
                            userSessions[s].device_type = Val(f.device_type)
                      /\ ~IsNull(f.is_new_user) =>
                            userSessions[s].is_new_user = Val(f.is_new_user)}

\* A query for the returning sessions of a country and a device type: it
\* returns one session and leaves out a new session of the same country and
\* device type, and a returning session of the country on another device.
C24_Witness ==
    \E i \in SessionQueries :
        LET f == calls[i].filters
            r == calls[i].result
        IN  /\ f.is_new_user = Some(FALSE)
            /\ f.country = Some("USA")
            /\ f.device_type = Some("desktop")
            /\ Len(r) = 1
            /\ \E s, t \in DOMAIN userSessions \ {r[1]} :
                  /\ userSessions[s].country = f.country
                  /\ userSessions[s].device_type = "desktop"
                  /\ userSessions[s].is_new_user
                  /\ userSessions[t].country = f.country
                  /\ userSessions[t].device_type # "desktop"
                  /\ ~userSessions[t].is_new_user

\* The calls a step adds to the history.
NewCalls == DOMAIN calls' \ DOMAIN calls

(* C25: getUserAnalytics returns exactly the aggregates with last_visit >=
   start_date, when start_date is given, and first_visit <= end_date, when
   end_date is given; without a date filter it returns every aggregate. *)
C25_AnalyticsFilters ==
    [][\A i \in NewCalls :
          calls'[i].op = "getUserAnalytics" =>
              LET f == calls'[i].filters
                  r == calls'[i].result
              IN  /\ r = {a \in DOMAIN userAnalytics :
                            /\ ~IsNull(f.start_date) =>
                                  userAnalytics[a].last_visit >= Val(f.start_date)
                            /\ ~IsNull(f.end_date) =>
                                  userAnalytics[a].first_visit <= Val(f.end_date)}
                  /\ IsNull(f.start_date) /\ IsNull(f.end_date)
                        => r = DOMAIN userAnalytics]_vars

\* The last call asked for a date range and got one of two aggregates: the
\* one returned was first seen before start_date and last seen in the range,
\* the other was last seen before start_date.
C25_Witness ==
    /\ calls # <<>>
    /\ LET c == calls[Len(calls)] IN
       /\ c.op = "getUserAnalytics"
       /\ ~IsNull(c.filters.start_date)
       /\ ~IsNull(c.filters.end_date)
       /\ \E a \in c.result :
             /\ userAnalytics[a].first_visit < Val(c.filters.start_date)
             /\ userAnalytics[a].last_visit >= Val(c.filters.start_date)
       /\ \E a \in DOMAIN userAnalytics \ c.result :
             /\ userAnalytics[a].last_visit < Val(c.filters.start_date)
             /\ userAnalytics[a].first_visit <= Val(c.filters.end_date)

\* The calls of the user agent parser.
Parses == {i \in DOMAIN calls : calls[i].op = "parseUserAgent"}

\* The user agent has a part that contains one of the patterns.
HasAny(ua, patterns) == \E part \in ua : PatternsIn[part].has \cap patterns # {}

(* C26: the classifier gives every user agent a device class in {desktop,
   mobile, tablet}: tablet when the tablet pattern matches, also when a
   mobile pattern matches too; mobile when a mobile pattern and no tablet
   pattern matches; desktop otherwise. *)
C26_DeviceClass ==
    \A i \in Parses :
        LET ua == calls[i].user_agent
            device == calls[i].result.deviceType
            tablet == HasAny(ua, {"ipad"})
            mobile == HasAny(ua, {"mobile", "android", "iphone", "ipod",
                                  "blackberry", "windows phone"})
        IN  /\ device \in {"desktop", "mobile", "tablet"}
            /\ tablet => device = "tablet"
            /\ mobile /\ ~tablet => device = "mobile"
            /\ ~mobile /\ ~tablet => device = "desktop"

\* The user agent of an iPad, which has the tablet pattern and a mobile
\* pattern: tablet.
C26_Witness ==
    \E i \in Parses :
        /\ {"IPad", "Mobile", "CpuOs", "Safari"} \subseteq calls[i].user_agent
        /\ calls[i].result.deviceType = "tablet"

(* C27: the browser follows the fixed precedence over the tokens in the user
   agent: Chrome when it has a Chrome token and no Edge token; otherwise
   Firefox when it has a Firefox token; otherwise Safari when it has a
   Safari token and no Chrome token; otherwise Edge when it has an Edge
   token; otherwise Opera when it has an Opera token; otherwise Unknown. *)
C27_BrowserPrecedence ==
    \A i \in Parses :
        LET ua == calls[i].user_agent
            browser == calls[i].result.browser
            chrome == HasAny(ua, {"chrome"})
            edge == HasAny(ua, {"edge"})
            firefox == HasAny(ua, {"firefox"})
            safari == HasAny(ua, {"safari"})
            opera == HasAny(ua, {"opera"})
            isChrome == chrome /\ ~edge
            isFirefox == ~isChrome /\ firefox
            isSafari == ~isChrome /\ ~isFirefox /\ safari /\ ~chrome
            isEdge == ~isChrome /\ ~isFirefox /\ ~isSafari /\ edge
            isOpera == ~isChrome /\ ~isFirefox /\ ~isSafari /\ ~isEdge /\ opera
        IN  /\ isChrome => browser = "Chrome"
            /\ isFirefox => browser = "Firefox"
            /\ isSafari => browser = "Safari"
            /\ isEdge => browser = "Edge"
            /\ isOpera => browser = "Opera"
            /\ ~(isChrome \/ isFirefox \/ isSafari \/ isEdge \/ isOpera)
                  => browser = "Unknown"

\* A user agent with Chrome, Safari, Edge and Opera tokens: Edge.
C27_Witness ==
    \E i \in Parses :
        /\ {"Chrome", "Safari", "Edge", "Opera"} \subseteq calls[i].user_agent
        /\ "Firefox" \notin calls[i].user_agent
        /\ calls[i].result.browser = "Edge"

(* C28: the page views one tracker instance tracks for its user are recorded in
   one session: all the trackEvent calls of the tracker that returned carry
   the same session id. *)
C28_SessionContinuity ==
    \A i, j \in TracksDone : calls[i].sessionId = calls[j].sessionId

\* The trackEvent calls that arrive or execute a statement in this step.
TracksStepping ==
    {i \in DOMAIN calls' : /\ IsTrack(calls'[i])
                           /\ (i \in DOMAIN calls => calls'[i] # calls[i])}

(* C29: a trackEvent for a user whose aggregate already exists leaves the
   total_time_spent, average_session_duration and first_visit of that
   aggregate as they were, in each of its steps. *)
C29_TrackLeavesTimes ==
    [][\A i \in TracksStepping :
          \A r \in DOMAIN userAnalytics :
              userAnalytics[r].user_id = calls'[i].user_id =>
                  /\ userAnalytics'[r].total_time_spent =
                         userAnalytics[r].total_time_spent
                  /\ userAnalytics'[r].average_session_duration =
                         userAnalytics[r].average_session_duration
                  /\ userAnalytics'[r].first_visit = userAnalytics[r].first_visit]_vars

\* The last call is a trackEvent that returned for a user whose aggregate
\* held time spent, and the aggregate holds it still with the first_visit it
\* had, next to the new last_visit.
C29_Witness ==
    /\ calls # <<>>
    /\ LET c == calls[Len(calls)] IN
        /\ IsTrack(c) /\ c.pc = "done" /\ ~c.isNewUser
        /\ Val(c.existingUserAnalytics).total_time_spent > 0
        /\ Val(c.existingUserAnalytics).average_session_duration > 0
        /\ \E r \in DOMAIN userAnalytics :
              /\ userAnalytics[r].user_id = c.user_id
              /\ userAnalytics[r].total_time_spent =
                     Val(c.existingUserAnalytics).total_time_spent
              /\ userAnalytics[r].average_session_duration =
                     Val(c.existingUserAnalytics).average_session_duration
              /\ userAnalytics[r].first_visit =
                     Val(c.existingUserAnalytics).first_visit
              /\ userAnalytics[r].first_visit < userAnalytics[r].last_visit
              /\ userAnalytics[r].total_page_views =
                     Val(c.existingUserAnalytics).total_page_views + 1

\* The read queries of the server.
ReadOps == {"getAnalyticsSummary", "getUserSessions", "getPageViews", "getUserAnalytics"}

(* C30: a read query (getAnalyticsSummary, getUserSessions, getPageViews,
   getUserAnalytics) modifies no session, page view or aggregate row: the
   tables after the call are the tables before it. *)
C30_ReadsChangeNothing ==
    [][(\E i \in NewCalls : calls'[i].op \in ReadOps) =>
          /\ userSessions' = userSessions
          /\ pageViews' = pageViews
          /\ userAnalytics' = userAnalytics
          /\ deletedSessions' = deletedSessions]_vars

\* The last call is a summary query over a store that holds a session
\* touched after its creation, a closed page view and an aggregate; the
\* session row still holds the earlier time of its last update.
C30_Witness ==
    /\ calls # <<>>
    /\ calls[Len(calls)].op = "getAnalyticsSummary"
    /\ calls[Len(calls)].pc = "done"
    /\ calls[Len(calls)].result.total_sessions > 0
    /\ \E s \in DOMAIN userSessions : userSessions[s].updated_at < now
    /\ \E p \in DOMAIN pageViews : IsClosed(pageViews[p])
    /\ userAnalytics # <<>>

\* The columns of a session row that describe the visit: all but updated_at.
Identity(s) == [s EXCEPT !.updated_at = 0]

(* C31: once a session row exists, no step of a trackEvent or endPageView call
   changes its user_id, is_new_user, device, browser, country or created_at;
   the row stays in the table and only its updated_at may change. *)
C31_SessionIdentity ==
    [][\A s \in DOMAIN userSessions :
          /\ s \in DOMAIN userSessions'
          /\ Identity(userSessions'[s]) = Identity(userSessions[s])]_vars

\* A trackEvent that reused the session of a new user has returned after an
\* endPageView of that session's page view: the session was updated after its
\* creation and is still the new user's session.
C31_Witness ==
    \E i \in TracksDone : \E j \in EndsDone :
        /\ j < i
        /\ ~IsNull(calls[i].session_id)
        /\ LET s == userSessions[Val(calls[i].session_id)] IN
            /\ s.user_id = calls[i].user_id
            /\ s.is_new_user
            /\ s.updated_at > s.created_at
            /\ pageViews[calls[j].page_view_id].session_id = Val(calls[i].session_id)

(* C32: the page-view lifecycle is one-directional.  In every state a page
   view has exit_time null exactly when time_spent is null, and a time_spent
   that is set is at least 0; and no step makes the exit_time of a closed
   page view null again or removes the row. *)
C32_Lifecycle ==
    /\ [](\A p \in DOMAIN pageViews :
            /\ IsNull(pageViews[p].exit_time) <=> IsNull(pageViews[p].time_spent)
            /\ ~IsNull(pageViews[p].time_spent) => Val(pageViews[p].time_spent) >= 0)
    /\ [][\A p \in DOMAIN pageViews :
            ~IsNull(pageViews[p].exit_time) =>
                /\ p \in DOMAIN pageViews'
                /\ ~IsNull(pageViews'[p].exit_time)]_vars

\* One page view is open; another was closed with an exit_time before its
\* entry_time (time_spent 0) and one call later is closed still.
C32_Witness ==
    /\ \E p \in DOMAIN pageViews : IsOpen(pageViews[p])
    /\ \E j \in EndsDone :
          /\ j < Len(calls)
          /\ LET p == pageViews[calls[j].page_view_id] IN
              /\ IsClosed(p)
              /\ Val(p.exit_time) < p.entry_time
              /\ p.time_spent = Some(0)

\* The session_id of request c matches no session row.
DanglingSession(c) == ~IsNull(c.session_id) /\ ~SessionExists(Val(c.session_id))

(* C33: a trackEvent with a session_id that matches no session row changes no
   page view and no aggregate in any of its steps, and ends only by failing
   with the store's foreign key error, having created no page view; and in
   every state the session_id of every page view is the id of a session row. *)
C33_UnknownSession ==
    /\ [](\A p \in DOMAIN pageViews : SessionExists(pageViews[p].session_id))
    /\ [][\A i \in TracksStepping :
            DanglingSession(calls'[i]) =>
                /\ pageViews' = pageViews
                /\ userAnalytics' = userAnalytics
                /\ Finished(calls'[i]) =>
                       /\ calls'[i].pc = "failed"
                       /\ calls'[i].error = Some("foreign key violation")
                       /\ IsNull(calls'[i].pageViewId)]_vars

\* After a trackEvent that stored a page view and an aggregate, a trackEvent
\* of the same user with an unknown session_id has failed, and the tables hold
\* the one page view and the counters of the first call.
C33_Witness ==
    /\ Len(calls) = 2
    /\ calls[1].pc = "done" /\ IsTrack(calls[1])
    /\ IsTrack(calls[2]) /\ calls[2].pc = "failed"
    /\ calls[2].session_id = Some(UnknownId)
    /\ calls[2].user_id = calls[1].user_id
    /\ Len(pageViews) = 1
    /\ Len(userAnalytics) = 1
    /\ userAnalytics[1].total_page_views = 1

\* The finished trackEvent calls of user u that read no aggregate and got as
\* far as the aggregate insert.
NewUserTracks(u) ==
    {i \in DOMAIN calls : /\ IsTrack(calls[i]) /\ Finished(calls[i])
                          /\ calls[i].user_id = u /\ calls[i].isNewUser
                          /\ ~IsNull(calls[i].pageViewId)}

(* C34: a user has at most one aggregate row.  Of the trackEvent calls of a
   user that read no aggregate, exactly one inserts it and returns; each of
   the others fails with the store's unique violation, after its page view
   and, when it supplied no session_id, its own session with is_new_user =
   true were stored. *)
C34_OneAggregate ==
    /\ \A r, q \in DOMAIN userAnalytics :
          userAnalytics[r].user_id = userAnalytics[q].user_id => r = q
    /\ \A u \in Users :
          NewUserTracks(u) # {} =>
              /\ Cardinality({i \in NewUserTracks(u) : calls[i].pc = "done"}) = 1
              /\ Cardinality(SelectAnalytics(u)) = 1
              /\ \A i \in NewUserTracks(u) :
                    calls[i].pc = "failed" =>
                        /\ calls[i].error = Some("unique violation")
                        /\ pageViews[Val(calls[i].pageViewId)].session_id =
                               Val(calls[i].sessionId)
                        /\ IsNull(calls[i].session_id) =>
                               /\ userSessions[Val(calls[i].sessionId)].is_new_user
                               /\ userSessions[Val(calls[i].sessionId)].user_id = u

\* Two calls of a new user, neither with a session_id, both read no
\* aggregate: the first returned and the second failed, leaving two sessions
\* with is_new_user = true, two page views and one aggregate that counts one.
C34_Witness ==
    /\ Len(calls) = 2
    /\ \A i \in {1, 2} : /\ IsTrack(calls[i]) /\ calls[i].isNewUser
                          /\ IsNull(calls[i].session_id)
    /\ calls[1].user_id = calls[2].user_id
    /\ calls[1].pc = "done"
    /\ calls[2].pc = "failed" /\ calls[2].error = Some("unique violation")
    /\ Len(userSessions) = 2
    /\ \A s \in DOMAIN userSessions : userSessions[s].is_new_user
    /\ Len(pageViews) = 2
    /\ Len(userAnalytics) = 1
    /\ userAnalytics[1].total_sessions = 1
    /\ userAnalytics[1].total_page_views = 1

\* The session rows of user u.
SessionsOf(u) == {s \in DOMAIN userSessions : userSessions[s].user_id = u}

\* Every trackEvent so far succeeded, and every session_id supplied was that
\* of a session of the call's own user.
OwnSessionsOnly ==
    \A i \in DOMAIN calls :
        IsTrack(calls[i]) =>
            /\ calls[i].pc # "failed"
            /\ ~IsNull(calls[i].session_id) =>
                   Val(calls[i].session_id) \in SessionsOf(calls[i].user_id)

(* C35: under sequential execution in which every trackEvent succeeds and
   every supplied session_id is that of an earlier session of the same user,
   after each call a user's aggregate has total_sessions equal to the number
   of session rows of the user and total_page_views equal to the number of
   page views in those sessions; and a user with a session has an aggregate. *)
C35_CountersMatchRows ==
    (InFlight = {} /\ OwnSessionsOnly) =>
        \A u \in Users :
            /\ SessionsOf(u) # {} => SelectAnalytics(u) # {}
            /\ \A r \in SelectAnalytics(u) :
                  /\ userAnalytics[r].total_sessions = Cardinality(SessionsOf(u))
                  /\ userAnalytics[r].total_page_views =
                         Cardinality({p \in DOMAIN pageViews :
                                        pageViews[p].session_id \in SessionsOf(u)})

\* Three events of one user, the last in the session of the second: two
\* session rows and three page views, counted so by the aggregate, while the
\* other user has none.
C35_Witness ==
    /\ InFlight = {} /\ OwnSessionsOnly
    /\ Len(calls) = 3 /\ TracksDone = {1, 2, 3}
    /\ IsNull(calls[2].session_id)
    /\ calls[3].session_id = calls[2].sessionId
    /\ \E u \in Users :
          /\ Cardinality(SessionsOf(u)) = 2
          /\ Len(pageViews) = 3
          /\ \A r \in SelectAnalytics(u) :
                /\ userAnalytics[r].total_sessions = 2
                /\ userAnalytics[r].total_page_views = 3

\* The closed page views in the sessions of user u.
ClosedPageViewsOf(u) ==
    {p \in DOMAIN pageViews : /\ pageViews[p].session_id \in SessionsOf(u)
                              /\ IsClosed(pageViews[p])}

(* C36: under sequential execution of trackEvent and endPageView calls, once
   a call has finished every aggregate's total_time_spent is the sum of
   time_spent over the closed page views in the sessions of its user. *)
C36_TimeSpentMatchesRows ==
    InFlight = {} =>
        \A r \in DOMAIN userAnalytics :
            userAnalytics[r].total_time_spent =
                SumTimeOf(ClosedPageViewsOf(userAnalytics[r].user_id))

(* C37: aggregates are never deleted and their counters are monotonic: in
   every step of every interleaving of trackEvent and endPageView calls an
   existing aggregate stays in the table, and its total_sessions,
   total_page_views and total_time_spent do not decrease. *)
C37_Monotonic ==
    [][\A r \in DOMAIN userAnalytics :
          /\ r \in DOMAIN userAnalytics'
          /\ userAnalytics'[r].user_id = userAnalytics[r].user_id
          /\ userAnalytics'[r].total_sessions >= userAnalytics[r].total_sessions
          /\ userAnalytics'[r].total_page_views >= userAnalytics[r].total_page_views
          /\ userAnalytics'[r].total_time_spent >= userAnalytics[r].total_time_spent]_vars

(* C38: in every state every aggregate has first_visit <= last_visit, whatever
   exit_time values the callers of endPageView supply. *)
C38_VisitOrder ==
    \A r \in DOMAIN userAnalytics :
        userAnalytics[r].first_visit <= userAnalytics[r].last_visit

\* The trackEvent calls that returned after updating the aggregate of user u.
UpdatingTracks(u) ==
    {i \in TracksDone : calls[i].user_id = u /\ ~calls[i].isNewUser}

\* The endPageView calls that returned after updating the aggregate of user u.
UpdatingEnds(u) ==
    {i \in EndsDone : calls[i].userId = Some(u) /\ ~IsNull(calls[i].existingAnalytics)}

(* C39: a trackEvent and an endPageView of the same user do not clobber each
   other's counters, however their statements interleave.  Once every call
   has returned, if at most one trackEvent and at most one endPageView
   updated a user's aggregate since its creation, total_page_views is 1 plus
   the number of those trackEvent calls and total_time_spent is the duration
   computed by the endPageView call. *)
C39_DisjointCounters ==
    InFlight = {} =>
        \A r \in DOMAIN userAnalytics :
            LET u == userAnalytics[r].user_id IN
            (Cardinality(UpdatingTracks(u)) <= 1 /\ Cardinality(UpdatingEnds(u)) <= 1)
            => /\ userAnalytics[r].total_page_views =
                     1 + Cardinality(UpdatingTracks(u))
               /\ userAnalytics[r].total_time_spent = SumTimeSpent(UpdatingEnds(u))

\* A trackEvent and an endPageView of one user overlapped: each read the
\* aggregate before the other wrote it (the endPageView read 1 page view, the
\* trackEvent read no time spent), and the aggregate counts 2 page views and
\* the second of the close.
C39_Witness ==
    /\ InFlight = {}
    /\ \E r \in DOMAIN userAnalytics :
          LET u == userAnalytics[r].user_id IN
          \E i \in UpdatingTracks(u) : \E j \in UpdatingEnds(u) :
              /\ UpdatingTracks(u) = {i} /\ UpdatingEnds(u) = {j}
              /\ Val(calls[i].existingUserAnalytics).total_time_spent = 0
              /\ Val(calls[j].existingAnalytics).total_page_views = 1
              /\ calls[j].timeSpentSeconds = 1
              /\ userAnalytics[r].total_page_views = 2
              /\ userAnalytics[r].total_time_spent = 1

(* C40: one tracker instance sends endPageView at most once for each page
   view id it received from trackEvent: no two endPageView requests of the
   tracker carry the same page_view_id. *)
C40_EndSentOnce ==
    \A i, j \in DOMAIN calls :
        (IsEnd(calls[i]) /\ IsEnd(calls[j]) /\ i # j) =>
            calls[i].page_view_id # calls[j].page_view_id

=============================================================================
